---- MODULE Spec2Model ----
(***************************************************************************)
(* Model of learnd's asynchronous enrichment and summarization pipeline:   *)
(* the entries table and the summary cache (internal/repository), the      *)
(* background worker with its two polling loops (internal/worker), the     *)
(* refresh operations of the entry handler, and the enricher registry      *)
(* (internal/enricher).                                                    *)
(***************************************************************************)
EXTENDS Integers, Sequences, FiniteSets, TLC

VARIABLES
    entries,      \* the entries table: id -> row (meaningful for ids in rows)
    rows,         \* ids of the rows that exist in the entries table
    nextID,       \* next id to insert; ids grow with created_at
    cache,        \* the summary_cache table: url_hash -> row
    summarizer,   \* Worker.summarizer: NULL (nil) or the configured provider
    started,      \* Worker.Start has been called
    eLoop,        \* runEnrichmentLoop / processEnrichment: pc, batch, idx
    sLoop,        \* runSummarizationLoop / processSummarization: pc, batch, idx, locals
    refreshes,    \* number of refresh requests served so far
    summarized,   \* ids of the entries w.summarizer.Summarize has been called for
    stopCh,       \* Worker.stopCh: "open" or "closed"
    wg,           \* Worker.wg: the WaitGroup's counter
    stopPC,       \* position of the caller of Worker.Stop: "none", "wait", "returned"
    cacheTable,   \* the summary_cache table row by row, in insertion order
    lastPut,      \* url_hash -> what the most recent Store for it was given
    puts,         \* number of Store calls so far
    cacheGot,     \* what the last GetByURLHash returned, and for which hash
    fetchPC,      \* position of a strategy's fetch: idle, connect, response, done, rejected, failed
    target,       \* the URL of the request the client is about to send or has sent
    via,          \* number of requests the client has sent for this fetch (len(via))
    lastCheck,    \* the last validateParsedURL: its URL, its verdict, the DNS answer it saw (until the request is sent)
    lastDial,     \* the address the last request connected to
    registry,     \* enricher.Registry: enrichers, fallback, which definition built it
    regPC,        \* position of the program using the registry
    invoked,      \* names of the strategies whose Enrich the last Registry.Enrich invoked
    enrichRet,    \* what the last Registry.Enrich returned
    enrichURL,    \* the URL of the last Registry.Enrich
    rawURL,       \* the text the last NormalizeURL call was given
    normalized,   \* what NormalizeURL returned for rawURL
    again,        \* what NormalizeURL returned for the string it had returned
    variant,      \* a text that differs from rawURL in what normalization ignores
    variantNormalized,  \* what NormalizeURL returned for variant
    webDoc,       \* the parsed page WebEnricher.Enrich works on, <<>> when none
    webResult,    \* the enricher.Result WebEnricher.Enrich has built
    sessions,     \* the sessions table: rows of token and expires_at
    now,          \* the clock
    due,          \* token -> the expiry the store has promised for it
    issued,       \* tokens Create has returned and Delete has not been given since
    deleted,      \* tokens Delete has been given and Create has not returned since
    validRet,     \* what Store.Valid has just returned
    stored,       \* a row of the entries table with all its columns, or none
    refreshRet,   \* what a refresh handler has just done: row before and after
    pollFailed,   \* loop -> a pending-list query of the loop has failed while
                  \* a record was pending for the loop
    batchSize,    \* Worker.batchSize
    response,     \* the response a strategy has received: status code, body length
    bodyRead,     \* strategy -> bytes of the body it has handed to its parser
    entryTable,   \* the entries table as the Create handler sees it: the rows
                  \* in the order of their insertion
    creates,      \* Create request -> its form values, its position, its answer
    descr,        \* the description truncateDescription is called with
    truncated     \* what truncateDescription has returned for it

vars == <<entries, rows, nextID, cache, summarizer, started,
          eLoop, sLoop, refreshes, summarized, stopCh, wg, stopPC,
          registry, regPC, invoked, enrichRet, enrichURL,
          cacheTable, lastPut, puts, cacheGot,
          fetchPC, target, via, lastCheck, lastDial,
          rawURL, normalized, again, variant, variantNormalized,
          webDoc, webResult,
          sessions, now, due, issued, deleted, validRet,
          stored, refreshRet, pollFailed, batchSize,
          response, bodyRead, entryTable, creates, descr, truncated>>

lifeVars == <<stopCh, wg, stopPC>>

pipeVars == <<entries, rows, nextID, cache, summarizer, started,
              eLoop, sLoop, refreshes, summarized, stopCh, wg, stopPC>>

regVars == <<registry, regPC, invoked, enrichRet, enrichURL>>

cacheVars == <<cacheTable, lastPut, puts, cacheGot>>

fetchVars == <<fetchPC, target, via, lastCheck, lastDial>>

normVars == <<rawURL, normalized, again, variant, variantNormalized>>

readVars == <<webDoc, webResult>>

resetVars == <<stored, refreshRet>>

workerVars == <<pollFailed, batchSize>>

sessVars == <<sessions, now, due, issued, deleted, validRet>>

(* The variables of the parts that are examined on their own *)
coreLibVars == <<cacheVars, fetchVars, normVars, readVars, sessVars, resetVars,
                 workerVars>>

bodyVars == <<response, bodyRead>>

createVars == <<entryTable, creates>>

truncVars == <<descr, truncated>>

partVars == <<bodyVars, createVars, truncVars>>

libVars == <<coreLibVars, partVars>>

----------------------------------------------------------------------------
(* Bounds                                                                  *)

MaxEntries == 2

MaxRegistered == 3

(* Refresh requests (RefreshEnrichment, RefreshSummary) a behaviour contains *)
MaxRefreshes == 1

(* SummaryCacheRepository.Store calls a behaviour of the cache contains *)
MaxPuts == 3

(* Addresses in one DNS answer *)
MaxAddrs == 2

(* Parameters in the query of a URL handed to NormalizeURL *)
MaxParams == 2

(* Words under the primary element of a page *)
MaxWords == 401

(* Clock ticks the session store is followed for *)
MaxTime == 4

(* Ticks of the session ttl *)
TTL == 2

(* Bytes about the body limit that response bodies are taken from *)
MaxOver == 2

(* Create requests served side by side *)
MaxRequests == 2

(* Worker.batchSize as configured through worker.Config.BatchSize *)
BatchSize == 5

(* Values of worker.Config.BatchSize a worker is constructed with: 0 is the
   unset field *)
BatchSizes == {0, 1, 2}

----------------------------------------------------------------------------
(* Values                                                                  *)

NULL == "NULL"

StatusPending == "pending"

StatusProcessing == "processing"

StatusOK == "ok"

StatusFailed == "failed"

StatusSkipped == "skipped"

ProcessingStatus ==
    {StatusPending, StatusProcessing, StatusOK, StatusFailed, StatusSkipped}

IDs == 1..MaxEntries

(* Source URLs a user submits *)
SourceURLs == {"u1"}

(* URLs a strategy reports as canonical: the source URL itself or another one *)
CanonicalURLs == {"u1", "c2"}

URLs == SourceURLs \cup CanonicalURLs

(* Error text of a failed stage call (err.Error()) *)
ErrMsg == "error"

(* hashURL: hex SHA-256 of the URL; injective on the URLs of the model *)
hashURL(url) == "sha256:" \o url

Hashes == {hashURL(u) : u \in URLs}

(* A row as INSERT leaves it: the column defaults of the entries table *)
NewEntry(url) ==
    [source_url |-> url,
     canonical_url |-> NULL,
     title |-> NULL,
     description |-> NULL,
     enrichment_status |-> StatusPending,
     enrichment_error |-> NULL,
     enriched_at |-> NULL,
     summary_text |-> NULL,
     summary_provider |-> NULL,
     summary_model |-> NULL,
     summary_version |-> NULL,
     summary_generated_at |-> NULL,
     summary_status |-> StatusPending,
     summary_error |-> NULL]

NoEntry == NewEntry(NULL)

NoCacheRow ==
    [summary_text |-> NULL, provider |-> NULL, model |-> NULL, version |-> NULL]

(* What a strategy's Enrich can return on success: enricher.Result *)
EnrichResults ==
    [CanonicalURL : CanonicalURLs, Title : {"T"}, Description : {"D"}]
      \cup [CanonicalURL : {"u1"}, Title : {"", "\\xff"}, Description : {""}]

(* sanitizeUTF8: strings.ToValidUTF8(s, ""), invalid byte sequences dropped *)
sanitizeUTF8(str) == IF str = "\\xff" THEN "" ELSE str

geminiProvider == "gemini"

geminiDefaultModel == "gemini-2.5-flash-lite"

geminiVersion == "1.0.0"

(* What Summarize can return on success: summarizer.Result *)
SummaryResults ==
    [Text : {"s1", "s2"}, Provider : {geminiProvider},
     Model : {geminiDefaultModel}, Version : {geminiVersion}]

----------------------------------------------------------------------------
(* internal/repository: the statements the pipeline and the handlers run   *)

(* UPDATE entries SET enrichment_status, enrichment_error, enriched_at: the row after it *)
UpdateEnrichmentStatus(e, status, errMsg) ==
    [e EXCEPT !.enrichment_status = status,
              !.enrichment_error = errMsg,
              !.enriched_at = IF status \in {StatusOK, StatusFailed}
                              THEN "set" ELSE NULL]

(* UPDATE entries SET canonical_url, ..., enrichment_status = 'ok': the row after it.
   Title and Description are Go strings, so an empty value is stored as '' and not as NULL *)
UpdateEnrichmentResult(e, result) ==
    [e EXCEPT !.canonical_url = result.CanonicalURL,
              !.title = result.Title,
              !.description = result.Description,
              !.enrichment_status = StatusOK,
              !.enrichment_error = NULL,
              !.enriched_at = "set"]

(* A statement that would set the status and leave the error as it was *)
UpdateSummaryStatus_StatusOnly(e, status, errMsg) ==
    [e EXCEPT !.summary_status = status]

(* UPDATE entries SET summary_status, summary_error: the row after it *)
UpdateSummaryStatus(e, status, errMsg) ==
    [e EXCEPT !.summary_status = status,
              !.summary_error = errMsg]

(* UPDATE entries SET summary_text, ..., summary_status = 'ok': the row after it *)
UpdateSummaryResult(e, result) ==
    [e EXCEPT !.summary_text = result.Text,
              !.summary_provider = result.Provider,
              !.summary_model = result.Model,
              !.summary_version = result.Version,
              !.summary_status = StatusOK,
              !.summary_error = NULL,
              !.summary_generated_at = "set"]

(* UPDATE entries SET enrichment_status = 'pending', ...: the row after it *)
ResetEnrichment(e) ==
    [e EXCEPT !.enrichment_status = StatusPending,
              !.enrichment_error = NULL,
              !.enriched_at = NULL]

(* A reset that would also drop the stored summary *)
ResetSummary_ClearsText(e) ==
    [e EXCEPT !.summary_status = StatusPending,
              !.summary_error = NULL,
              !.summary_generated_at = NULL,
              !.summary_text = NULL]

(* UPDATE entries SET summary_status = 'pending', ...: the row after it *)
ResetSummary(e) ==
    [e EXCEPT !.summary_status = StatusPending,
              !.summary_error = NULL,
              !.summary_generated_at = NULL]

(* pool.Exec of an UPDATE ... WHERE id = $1: the table after it.  The statement
   carries no condition on the current status; a missing row updates nothing
   and is no error; a failed Exec changes nothing *)
Exec(id, row, ok) ==
    IF ok /\ id \in rows THEN [entries EXCEPT ![id] = row] ELSE entries

RECURSIVE SortedSeq(_)
(* ORDER BY created_at ASC: ids grow with created_at *)
SortedSeq(S) ==
    IF S = {} THEN <<>>
    ELSE LET m == CHOOSE x \in S : \A y \in S : x <= y
         IN <<m>> \o SortedSeq(S \ {m})

(* A query without LIMIT *)
Limit_None(seq, n) == seq

(* LIMIT $1 *)
Limit(seq, n) == SubSeq(seq, 1, IF Len(seq) < n THEN Len(seq) ELSE n)

(* The columns of a scanned row that the loops read afterwards: entry.SourceURL,
   entry.CanonicalURL, entry.Title, entry.Description (entry.ID is kept beside) *)
ReadColumns(e) ==
    [source_url |-> e.source_url, canonical_url |-> e.canonical_url,
     title |-> e.title, description |-> e.description]

(* scanEntries: the rows of a query as a slice of model.Entry values: copies,
   which later writes to the table do not change *)
scanEntries(ids) ==
    [k \in 1..Len(ids) |-> [id |-> ids[k], entry |-> ReadColumns(entries[ids[k]])]]

(* A query that also picks failed records up again *)
PendingEnrichment_Retry(e) ==
    e.enrichment_status \in {StatusPending, StatusFailed}

(* WHERE enrichment_status = 'pending' *)
PendingEnrichment(e) == e.enrichment_status = StatusPending

(* A query without the condition on summary_status *)
PendingSummary_AnyStatus(e) == e.enrichment_status = StatusOK

(* WHERE summary_status = 'pending' AND enrichment_status = 'ok' *)
PendingSummary(e) ==
    e.summary_status = StatusPending /\ e.enrichment_status = StatusOK

GetPendingEnrichment(limit) ==
    scanEntries(Limit(SortedSeq({i \in rows : PendingEnrichment(entries[i])}), limit))

GetPendingSummary(limit) ==
    scanEntries(Limit(SortedSeq({i \in rows : PendingSummary(entries[i])}), limit))

(* A lookup that never finds a row *)
GetByURLHash_Miss(urlHash) == NoCacheRow

(* SummaryCacheRepository.GetByURLHash: the row, or nil when there is none *)
GetByURLHash(urlHash) == cache[urlHash]

(* SummaryCacheRepository.Store: INSERT ... ON CONFLICT (url_hash) DO UPDATE *)
Store(urlHash, result) ==
    [cache EXCEPT ![urlHash] =
        [summary_text |-> result.Text, provider |-> result.Provider,
         model |-> result.Model, version |-> result.Version]]

----------------------------------------------------------------------------
(* internal/worker                                                         *)

IdleLoop ==
    [pc |-> "idle", batch |-> <<>>, idx |-> 0]

(* The entry of the batch the loop is working on *)
Cur(loop) == loop.batch[loop.idx]

(* No `continue`: the loop stays at the entry in hand *)
Continue_Stay(loop, firstPC) == [loop EXCEPT !.pc = firstPC]

(* `return` in place of `continue`: the rest of the batch is dropped *)
Continue_Return(loop, firstPC) == IdleLoop

(* `continue`: on to the next entry of the batch, or back to the select when
   the range is exhausted *)
Continue(loop, firstPC) ==
    IF loop.idx < Len(loop.batch)
    THEN [loop EXCEPT !.pc = firstPC, !.idx = loop.idx + 1]
    ELSE IdleLoop

(* A tick that would end the loop when its pending-list query fails *)
Polled_ExitOnErr(batch, ok, firstPC) ==
    IF ~ok THEN [IdleLoop EXCEPT !.pc = "done"]
    ELSE IF Len(batch) > 0
    THEN [IdleLoop EXCEPT !.pc = firstPC, !.batch = batch, !.idx = 1]
    ELSE IdleLoop

(* A tick that would run its query and not range over the result *)
Polled_NoRange(batch, ok, firstPC) == IdleLoop

(* entries, err := GetPending...(ctx, w.batchSize); if err != nil { return };
   for _, entry := range entries: the loop at the first entry of the batch,
   or back at the select when the query failed or found nothing *)
Polled(batch, ok, firstPC) ==
    IF ok /\ Len(batch) > 0
    THEN [IdleLoop EXCEPT !.pc = firstPC, !.batch = batch, !.idx = 1]
    ELSE IdleLoop

(* canonicalURL := entry.SourceURL; if entry.CanonicalURL != nil { ... } *)
CanonicalOrSource(e) ==
    IF e.canonical_url # NULL THEN e.canonical_url ELSE e.source_url

(* if entry.Title == nil && entry.Description == nil *)
NoContent(e) == e.title = NULL /\ e.description = NULL

----------------------------------------------------------------------------
(* Operations outside the worker: entry creation and the refresh handlers  *)

(* EntryRepository.Create: INSERT INTO entries, statuses default to pending *)
Create(url) ==
    /\ nextID <= MaxEntries
    /\ entries' = [entries EXCEPT ![nextID] = NewEntry(url)]
    /\ rows' = rows \cup {nextID}
    /\ nextID' = nextID + 1
    /\ UNCHANGED <<cache, summarizer, started, eLoop, sLoop, refreshes, summarized>>
    /\ UNCHANGED regVars
    /\ UNCHANGED libVars
    /\ UNCHANGED lifeVars

(* EntryHandler.RefreshEnrichment: entryRepo.ResetEnrichment(ctx, id) *)
RefreshEnrichment(id) ==
    /\ id \in rows
    /\ refreshes < MaxRefreshes
    /\ refreshes' = refreshes + 1
    /\ entries' = Exec(id, ResetEnrichment(entries[id]), TRUE)
    /\ UNCHANGED <<rows, nextID, cache, summarizer, started, eLoop, sLoop, summarized>>
    /\ UNCHANGED regVars
    /\ UNCHANGED libVars
    /\ UNCHANGED lifeVars

(* EntryHandler.RefreshSummary: entryRepo.ResetSummary(ctx, id) *)
RefreshSummary(id) ==
    /\ id \in rows
    /\ refreshes < MaxRefreshes
    /\ refreshes' = refreshes + 1
    /\ entries' = Exec(id, ResetSummary(entries[id]), TRUE)
    /\ UNCHANGED <<rows, nextID, cache, summarizer, started, eLoop, sLoop, summarized>>
    /\ UNCHANGED regVars
    /\ UNCHANGED libVars
    /\ UNCHANGED lifeVars

----------------------------------------------------------------------------
(* Worker.Start and the two loops.  The parameters named ok say whether the *)
(* storage call of the step succeeds (pool.Exec / pool.Query returns nil).  *)

(* Worker.Start: wg.Add(2); go runEnrichmentLoop; go runSummarizationLoop *)
Start ==
    /\ ~started
    /\ started' = TRUE
    /\ eLoop' = IdleLoop
    /\ sLoop' = IdleLoop
    /\ UNCHANGED <<entries, rows, nextID, cache, summarizer, refreshes, summarized>>
    /\ UNCHANGED regVars
    /\ UNCHANGED libVars
    /\ wg' = wg + 2
    /\ UNCHANGED <<stopCh, stopPC>>

(* case <-ticker.C: processEnrichment up to the range statement: the
   pending-list query; an error ends the tick *)
EnrichTick(ok) ==
    /\ eLoop.pc = "idle"
    /\ eLoop' = Polled(GetPendingEnrichment(batchSize), ok, "mark")
    /\ UNCHANGED <<entries, rows, nextID, cache, summarizer, started, sLoop, refreshes, summarized>>
    /\ UNCHANGED regVars
    /\ UNCHANGED libVars
    /\ UNCHANGED lifeVars

(* processEnrichment, "Mark as processing": UpdateEnrichmentStatus(ctx,
   entry.ID, StatusProcessing, nil); on error continue *)
EnrichMark(ok) ==
    /\ eLoop.pc = "mark"
    /\ LET id == Cur(eLoop).id
       IN entries' = Exec(id, UpdateEnrichmentStatus(entries[id], StatusProcessing, NULL), ok)
    /\ eLoop' = IF ok THEN [eLoop EXCEPT !.pc = "enrich"]
                ELSE Continue(eLoop, "mark")
    /\ UNCHANGED <<rows, nextID, cache, summarizer, started, sLoop, refreshes, summarized>>
    /\ UNCHANGED regVars
    /\ UNCHANGED libVars
    /\ UNCHANGED lifeVars

(* processEnrichment, "Enrich" with a failing w.enrichRegistry.Enrich:
   UpdateEnrichmentStatus(ctx, entry.ID, StatusFailed, &errMsg), its error
   ignored; continue *)
EnrichFail(ok) ==
    /\ eLoop.pc = "enrich"
    /\ LET id == Cur(eLoop).id
       IN entries' = Exec(id, UpdateEnrichmentStatus(entries[id], StatusFailed, ErrMsg), ok)
    /\ eLoop' = Continue(eLoop, "mark")
    /\ UNCHANGED <<rows, nextID, cache, summarizer, started, sLoop, refreshes, summarized>>
    /\ UNCHANGED regVars
    /\ UNCHANGED libVars
    /\ UNCHANGED lifeVars

(* processEnrichment, "Enrich" with a successful w.enrichRegistry.Enrich and
   "Save enrichment result": the text fields sanitized, then
   UpdateEnrichmentResult(ctx, entry.ID, enrichResult); continue either way *)
EnrichSave(result, ok) ==
    /\ eLoop.pc = "enrich"
    /\ LET id == Cur(eLoop).id
           enrichResult == [result EXCEPT !.Title = sanitizeUTF8(result.Title),
                                          !.Description = sanitizeUTF8(result.Description)]
       IN entries' = Exec(id, UpdateEnrichmentResult(entries[id], enrichResult), ok)
    /\ eLoop' = Continue(eLoop, "mark")
    /\ UNCHANGED <<rows, nextID, cache, summarizer, started, sLoop, refreshes, summarized>>
    /\ UNCHANGED regVars
    /\ UNCHANGED libVars
    /\ UNCHANGED lifeVars

(* A test that takes a nil summarizer for a configured one *)
HasSummarizer_Always(sum) == TRUE

(* if w.summarizer == nil { return }: negated *)
HasSummarizer(sum) == sum # NULL

(* case <-ticker.C: processSummarization up to the range statement: return
   when no summarizer is configured, else the pending-list query; an error
   ends the tick *)
SummTick(ok) ==
    /\ sLoop.pc = "idle"
    /\ sLoop' = IF HasSummarizer(summarizer)
                THEN Polled(GetPendingSummary(batchSize), ok, "check")
                ELSE IdleLoop
    /\ UNCHANGED <<entries, rows, nextID, cache, summarizer, started, eLoop, refreshes, summarized>>
    /\ UNCHANGED regVars
    /\ UNCHANGED libVars
    /\ UNCHANGED lifeVars

(* urlHash := hashURL(canonicalURL) of the entry the summarization loop is at *)
CurHash == hashURL(CanonicalOrSource(Cur(sLoop).entry))

(* processSummarization from the top of the loop body to the call of the
   summarizer.  "Skip if no content to summarize": UpdateSummaryStatus(ctx,
   entry.ID, StatusSkipped, nil), its error ignored; continue.  "Check cache
   first": on a hit (err == nil && cached != nil) UpdateSummaryResult(ctx,
   entry.ID, result) with the cached fields; continue either way.  Otherwise
   "Mark as processing": UpdateSummaryStatus(ctx, entry.ID, StatusProcessing,
   nil); on error continue.  okGet: the cache lookup succeeds; ok: the write *)
SummCheck(okGet, ok) ==
    /\ sLoop.pc = "check"
    /\ LET id == Cur(sLoop).id
           cached == GetByURLHash(CurHash)
           result == [Text |-> cached.summary_text,
                      Provider |-> cached.provider,
                      Model |-> cached.model,
                      Version |-> cached.version]
       IN IF NoContent(Cur(sLoop).entry)
          THEN /\ entries' = Exec(id, UpdateSummaryStatus(entries[id], StatusSkipped, NULL), ok)
               /\ sLoop' = Continue(sLoop, "check")
          ELSE IF okGet /\ cached # NoCacheRow
          THEN /\ entries' = Exec(id, UpdateSummaryResult(entries[id], result), ok)
               /\ sLoop' = Continue(sLoop, "check")
          ELSE /\ entries' = Exec(id, UpdateSummaryStatus(entries[id], StatusProcessing, NULL), ok)
               /\ sLoop' = IF ok THEN [sLoop EXCEPT !.pc = "summarize"]
                           ELSE Continue(sLoop, "check")
    /\ UNCHANGED <<rows, nextID, cache, summarizer, started, eLoop, refreshes, summarized>>
    /\ UNCHANGED regVars
    /\ UNCHANGED libVars
    /\ UNCHANGED lifeVars

(* processSummarization, "Generate summary" with a failing
   w.summarizer.Summarize: UpdateSummaryStatus(ctx, entry.ID, StatusFailed,
   &errMsg), its error ignored; continue *)
SummFail(ok) ==
    /\ sLoop.pc = "summarize"
    /\ LET id == Cur(sLoop).id
       IN entries' = Exec(id, UpdateSummaryStatus(entries[id], StatusFailed, ErrMsg), ok)
    /\ summarized' = summarized \cup {Cur(sLoop).id}
    /\ sLoop' = Continue(sLoop, "check")
    /\ UNCHANGED <<rows, nextID, cache, summarizer, started, eLoop, refreshes>>
    /\ UNCHANGED regVars
    /\ UNCHANGED libVars
    /\ UNCHANGED lifeVars

(* processSummarization, "Generate summary" with a successful
   w.summarizer.Summarize, "Save to entry": UpdateSummaryResult(ctx, entry.ID,
   summaryResult), on error continue; then "Cache the summary":
   w.cacheRepo.Store(ctx, cache) under the hash computed before the lookup,
   an error only logged *)
SummSave(result, ok, okStore) ==
    /\ sLoop.pc = "summarize"
    /\ LET id == Cur(sLoop).id
       IN entries' = Exec(id, UpdateSummaryResult(entries[id], result), ok)
    /\ cache' = IF ok /\ okStore THEN Store(CurHash, result) ELSE cache
    /\ summarized' = summarized \cup {Cur(sLoop).id}
    /\ sLoop' = Continue(sLoop, "check")
    /\ UNCHANGED <<rows, nextID, summarizer, started, eLoop, refreshes>>
    /\ UNCHANGED regVars
    /\ UNCHANGED libVars
    /\ UNCHANGED lifeVars

----------------------------------------------------------------------------
(* Worker.Stop and the exit of the loops                                   *)

(* worker.New: cfg.BatchSize, or 5 when it is zero.  main constructs the
   worker with BatchSize: 5; here it is constructed again, before Start,
   with another configuration *)
New(cfg) ==
    /\ ~started
    /\ batchSize = BatchSize
    /\ batchSize' = IF cfg.BatchSize = 0 THEN 5 ELSE cfg.BatchSize
    /\ UNCHANGED pollFailed
    /\ UNCHANGED <<pipeVars, regVars, cacheVars, fetchVars, normVars,
                   readVars, sessVars, resetVars, partVars>>

(* What is remembered of the failed queries of a loop: whether one has
   failed while the query had records to return *)
FailedWith(before, batch) == before \/ Len(batch) > 0

(* A tick of the enrichment loop whose pending-list query fails: slog.Error
   and return.  pollFailed remembers that it has happened *)
EnrichPollFails ==
    /\ eLoop.pc = "idle"
    /\ eLoop' = Polled(<<>>, FALSE, "mark")
    /\ pollFailed' = [pollFailed EXCEPT !.enrichment =
                         FailedWith(@, GetPendingEnrichment(batchSize))]
    /\ UNCHANGED batchSize
    /\ UNCHANGED <<entries, rows, nextID, cache, summarizer, started,
                   sLoop, refreshes, summarized>>
    /\ UNCHANGED regVars
    /\ UNCHANGED <<cacheVars, fetchVars, normVars, readVars, sessVars, resetVars,
                   partVars>>
    /\ UNCHANGED lifeVars

(* A tick of the summarization loop whose pending-list query fails; without
   a summarizer the tick returns before the query *)
SummPollFails ==
    /\ sLoop.pc = "idle"
    /\ HasSummarizer(summarizer)
    /\ sLoop' = Polled(<<>>, FALSE, "check")
    /\ pollFailed' = [pollFailed EXCEPT !.summarization =
                         FailedWith(@, GetPendingSummary(batchSize))]
    /\ UNCHANGED batchSize
    /\ UNCHANGED <<entries, rows, nextID, cache, summarizer, started,
                   eLoop, refreshes, summarized>>
    /\ UNCHANGED regVars
    /\ UNCHANGED <<cacheVars, fetchVars, normVars, readVars, sessVars, resetVars,
                   partVars>>
    /\ UNCHANGED lifeVars

(* A loop that has returned from runEnrichmentLoop / runSummarizationLoop *)
DoneLoop == [IdleLoop EXCEPT !.pc = "done"]

(* A Wait that returns without waiting for the counter *)
WaitReturns_NoWait(counter) == TRUE

(* w.wg.Wait(): returns once the counter is zero *)
WaitReturns(counter) == counter = 0

(* Worker.Stop up to its wait: close(w.stopCh).  main calls it after Start *)
StopClose ==
    /\ started
    /\ stopPC = "none"
    /\ stopCh' = "closed"
    /\ stopPC' = "wait"
    /\ UNCHANGED <<entries, rows, nextID, cache, summarizer, started,
                   eLoop, sLoop, refreshes, summarized, wg>>
    /\ UNCHANGED regVars
    /\ UNCHANGED libVars

(* Worker.Stop: w.wg.Wait() returns, and Stop with it *)
StopReturn ==
    /\ stopPC = "wait"
    /\ WaitReturns(wg)
    /\ stopPC' = "returned"
    /\ UNCHANGED <<entries, rows, nextID, cache, summarizer, started,
                   eLoop, sLoop, refreshes, summarized, stopCh, wg>>
    /\ UNCHANGED regVars
    /\ UNCHANGED libVars

(* runEnrichmentLoop: case <-w.stopCh: return, with the deferred w.wg.Done().
   The select is reached between two ticks only *)
EnrichExit ==
    /\ eLoop.pc = "idle"
    /\ stopCh = "closed"
    /\ eLoop' = DoneLoop
    /\ wg' = wg - 1
    /\ UNCHANGED <<entries, rows, nextID, cache, summarizer, started,
                   sLoop, refreshes, summarized, stopCh, stopPC>>
    /\ UNCHANGED regVars
    /\ UNCHANGED libVars

(* runSummarizationLoop: case <-w.stopCh: return, with the deferred w.wg.Done() *)
SummExit ==
    /\ sLoop.pc = "idle"
    /\ stopCh = "closed"
    /\ sLoop' = DoneLoop
    /\ wg' = wg - 1
    /\ UNCHANGED <<entries, rows, nextID, cache, summarizer, started,
                   eLoop, refreshes, summarized, stopCh, stopPC>>
    /\ UNCHANGED regVars
    /\ UNCHANGED libVars

----------------------------------------------------------------------------
(* SummaryCacheRepository over the summary_cache table, row by row          *)

(* Indexes of the rows WHERE url_hash = $1 *)
RowsWithHash(table, urlHash) ==
    {k \in 1..Len(table) : table[k].url_hash = urlHash}

(* An INSERT that ignores the unique url_hash: a second row for the hash *)
StoreRow_Insert(table, urlHash, canonicalURL, result) ==
    Append(table, [url_hash |-> urlHash, canonical_url |-> canonicalURL,
                   summary_text |-> result.Text, provider |-> result.Provider,
                   model |-> result.Model, version |-> result.Version])

(* Store's statement: INSERT INTO summary_cache ... ON CONFLICT (url_hash) DO
   UPDATE SET summary_text, provider, model, version (canonical_url stays) *)
StoreRow(table, urlHash, canonicalURL, result) ==
    IF RowsWithHash(table, urlHash) # {}
    THEN [k \in 1..Len(table) |->
            IF table[k].url_hash = urlHash
            THEN [table[k] EXCEPT !.summary_text = result.Text,
                                  !.provider = result.Provider,
                                  !.model = result.Model,
                                  !.version = result.Version]
            ELSE table[k]]
    ELSE Append(table, [url_hash |-> urlHash, canonical_url |-> canonicalURL,
                        summary_text |-> result.Text, provider |-> result.Provider,
                        model |-> result.Model, version |-> result.Version])

(* GetByURLHash's statement: QueryRow(...).Scan: the first row of the result,
   pgx.ErrNoRows (nil, nil) when there is none *)
QueryRow(table, urlHash) ==
    IF RowsWithHash(table, urlHash) = {} THEN NoCacheRow
    ELSE LET k == CHOOSE k \in RowsWithHash(table, urlHash) :
                      \A j \in RowsWithHash(table, urlHash) : k <= j
         IN [summary_text |-> table[k].summary_text, provider |-> table[k].provider,
             model |-> table[k].model, version |-> table[k].version]

NoGet == [url_hash |-> NULL, row |-> NoCacheRow]

(* A call of SummaryCacheRepository.Store *)
CachePut(canonicalURL, result) ==
    /\ puts < MaxPuts
    /\ puts' = puts + 1
    /\ cacheTable' = StoreRow(cacheTable, hashURL(canonicalURL), canonicalURL, result)
    /\ lastPut' = [lastPut EXCEPT ![hashURL(canonicalURL)] =
                      [summary_text |-> result.Text, provider |-> result.Provider,
                       model |-> result.Model, version |-> result.Version]]
    /\ cacheGot' = NoGet
    /\ UNCHANGED <<pipeVars, regVars, resetVars, workerVars, partVars, fetchVars, normVars, readVars, sessVars>>

(* A call of SummaryCacheRepository.GetByURLHash *)
CacheGet(urlHash) ==
    /\ cacheGot' = [url_hash |-> urlHash, row |-> QueryRow(cacheTable, urlHash)]
    /\ UNCHANGED <<cacheTable, lastPut, puts>>
    /\ UNCHANGED <<pipeVars, regVars, resetVars, workerVars, partVars, fetchVars, normVars, readVars, sessVars>>

----------------------------------------------------------------------------
(* internal/enricher: the safe fetch layer (validateFetchURL and the client *)
(* of newSafeHTTPClient).  Text is a sequence of characters, an IP address  *)
(* a sequence of its four bytes, and <<>> stands for "" and for a nil IP.   *)

UpperChars ==
    <<"A", "B", "C", "D", "E", "F", "G", "H", "I", "J", "K", "L", "M",
      "N", "O", "P", "Q", "R", "S", "T", "U", "V", "W", "X", "Y", "Z">>

LowerChars ==
    <<"a", "b", "c", "d", "e", "f", "g", "h", "i", "j", "k", "l", "m",
      "n", "o", "p", "q", "r", "s", "t", "u", "v", "w", "x", "y", "z">>

(* The lower-case letter of each upper-case letter *)
LowerOf ==
    [c \in {UpperChars[j] : j \in 1..Len(UpperChars)} |->
        LowerChars[CHOOSE j \in 1..Len(UpperChars) : UpperChars[j] = c]]

(* strings.ToLower *)
ToLower(str) ==
    [k \in 1..Len(str) |->
        IF str[k] \in DOMAIN LowerOf THEN LowerOf[str[k]] ELSE str[k]]

RECURSIVE TrimLeft(_)
TrimLeft(str) ==
    IF str # <<>> /\ Head(str) = " " THEN TrimLeft(Tail(str)) ELSE str

RECURSIVE TrimRight(_)
TrimRight(str) ==
    IF str # <<>> /\ str[Len(str)] = " "
    THEN TrimRight(SubSeq(str, 1, Len(str) - 1)) ELSE str

(* strings.TrimSpace *)
TrimSpace(str) == TrimRight(TrimLeft(str))

(* strings.HasSuffix *)
HasSuffix(str, suffix) ==
    /\ Len(str) >= Len(suffix)
    /\ SubSeq(str, Len(str) - Len(suffix) + 1, Len(str)) = suffix

TextHTTP == <<"h", "t", "t", "p">>

TextHTTPS == <<"h", "t", "t", "p", "s">>

TextLocalhost == <<"l", "o", "c", "a", "l", "h", "o", "s", "t">>

(* Schemes of the URLs handed to the fetch layer *)
Schemes == {<<>>, TextHTTP, TextHTTPS, <<"f", "t", "p">>}

(* DNS names of the URLs handed to the fetch layer *)
HostNames ==
    {<<"a", ".", "i", "o">>, TextLocalhost, <<"L", "o", "c", "a", "l", "H", "o", "s", "t">>,
     <<"x", ".">> \o TextLocalhost, <<"x">> \o TextLocalhost}

PublicIP == <<93, 184, 216, 34>>

(* Addresses a DNS answer or a connection is made of *)
DNSIPs ==
    {PublicIP, <<127, 0, 0, 1>>, <<10, 1, 2, 3>>, <<169, 254, 169, 254>>, <<224, 0, 0, 1>>}

(* Literal IP hosts of the URLs handed to the fetch layer *)
LiteralIPs ==
    DNSIPs \cup {<<0, 0, 0, 0>>, <<172, 16, 0, 1>>, <<172, 31, 255, 254>>,
                 <<172, 32, 0, 1>>, <<192, 168, 1, 1>>, <<127, 255, 0, 1>>,
                 <<239, 1, 1, 1>>, <<8, 8, 8, 8>>}

(* ip.IsLoopback(): 127.0.0.0/8 *)
IsLoopback(ip) == ip[1] = 127

(* ip.IsPrivate(): 10.0.0.0/8, 172.16.0.0/12, 192.168.0.0/16 *)
IsPrivate(ip) ==
    \/ ip[1] = 10
    \/ ip[1] = 172 /\ ip[2] \div 16 = 1
    \/ ip[1] = 192 /\ ip[2] = 168

(* ip.IsLinkLocalUnicast(): 169.254.0.0/16 *)
IsLinkLocalUnicast(ip) == ip[1] = 169 /\ ip[2] = 254

(* ip.IsLinkLocalMulticast(): 224.0.0.0/24 *)
IsLinkLocalMulticast(ip) == ip[1] = 224 /\ ip[2] = 0 /\ ip[3] = 0

(* ip.IsMulticast(): 224.0.0.0/4 *)
IsMulticast(ip) == ip[1] \div 16 = 14

(* ip.IsUnspecified(): 0.0.0.0 *)
IsUnspecified(ip) == ip = <<0, 0, 0, 0>>

(* A check that leaves the link-local range out *)
isPrivateIP_NoLinkLocal(ip) ==
    IF ip = <<>> THEN TRUE
    ELSE IsLoopback(ip) \/ IsPrivate(ip) \/ IsMulticast(ip) \/ IsUnspecified(ip)

(* isPrivateIP *)
isPrivateIP(ip) ==
    IF ip = <<>> THEN TRUE
    ELSE \/ IsLoopback(ip)
         \/ IsPrivate(ip)
         \/ IsLinkLocalUnicast(ip)
         \/ IsLinkLocalMulticast(ip)
         \/ IsMulticast(ip)
         \/ IsUnspecified(ip)

(* isLocalhost *)
isLocalhost(host) ==
    LET h == ToLower(TrimSpace(host))
    IN h = TextLocalhost \/ HasSuffix(h, <<".">> \o TextLocalhost)

(* A parsed URL (url.URL): Scheme, User (NULL for nil), and the host, which
   is a name, a literal IP, or missing *)
ParsedURL(scheme, user, name, ip) ==
    [Scheme |-> scheme, User |-> user, HostName |-> name, HostIP |-> ip]

(* The URLs handed to the fetch layer, as url.Parse returns them *)
FetchURLs ==
    {ParsedURL(sc, NULL, n, <<>>) : sc \in Schemes, n \in {<<"a", ".", "i", "o">>}}
      \cup {ParsedURL(TextHTTP, NULL, n, <<>>) : n \in HostNames \cup {<<>>}}
      \cup {ParsedURL(TextHTTPS, NULL, <<>>, ip) : ip \in LiteralIPs}
      \cup {ParsedURL(TextHTTP, "user", <<>>, PublicIP),
            ParsedURL(TextHTTP, "user", <<"a", ".", "i", "o">>, <<>>),
            ParsedURL(<<"f", "t", "p">>, NULL, <<>>, PublicIP)}

(* Sequences over S of length at most n *)
SeqsUpTo(S, n) == UNION {[1..k -> S] : k \in 0..n}

(* What net.DefaultResolver.LookupIPAddr can return: an error, or addresses *)
DNSAnswers ==
    {[err |-> TRUE, addrs |-> <<>>]}
      \cup {[err |-> FALSE, addrs |-> a] : a \in SeqsUpTo(DNSIPs, MaxAddrs)}

NoAnswer == [err |-> FALSE, addrs |-> <<>>]

NoURL == ParsedURL(<<>>, NULL, <<>>, <<>>)

NoCheck == [url |-> NoURL, ok |-> FALSE, resolved |-> FALSE, answer |-> NoAnswer]

maxRedirects == 10

(* readingWordsPerMinute of the Web strategy *)
readingWordsPerMinute == 200

(* maxCreateAttempts of the session store *)
maxCreateAttempts == 5

(* A loop that is content with one allowed address *)
NoPrivateAddr_Any(addrs) == \E k \in 1..Len(addrs) : ~isPrivateIP(addrs[k])

(* for _, addr := range addrs { if isPrivateIP(addr.IP) { return error } } *)
NoPrivateAddr(addrs) == \A k \in 1..Len(addrs) : ~isPrivateIP(addrs[k])

(* validateParsedURL: ok is a nil error, resolved says whether LookupIPAddr
   was called; answer is what the resolver returns if it is *)
validateParsedURL(u, answer) ==
    IF u.Scheme = <<>> \/ (u.HostName = <<>> /\ u.HostIP = <<>>)
    THEN [ok |-> FALSE, resolved |-> FALSE]
    ELSE IF ToLower(u.Scheme) \notin {TextHTTP, TextHTTPS}
    THEN [ok |-> FALSE, resolved |-> FALSE]
    ELSE IF u.User # NULL
    THEN [ok |-> FALSE, resolved |-> FALSE]
    ELSE IF isLocalhost(u.HostName)
    THEN [ok |-> FALSE, resolved |-> FALSE]
    ELSE IF u.HostIP # <<>>
    THEN [ok |-> ~isPrivateIP(u.HostIP), resolved |-> FALSE]
    ELSE IF answer.err
    THEN [ok |-> FALSE, resolved |-> TRUE]
    ELSE IF Len(answer.addrs) = 0
    THEN [ok |-> FALSE, resolved |-> TRUE]
    ELSE [ok |-> NoPrivateAddr(answer.addrs), resolved |-> TRUE]

(* The answers the resolver can give validateParsedURL for u: nothing when
   u is settled without a lookup *)
AnswersFor(u) ==
    IF validateParsedURL(u, NoAnswer).resolved THEN DNSAnswers ELSE {NoAnswer}

(* A CheckRedirect that lets every target through *)
CheckRedirect_NoValidation(sent, u, answer) ==
    [ok |-> sent < maxRedirects, resolved |-> FALSE]

(* newSafeHTTPClient's CheckRedirect: sent is len(via) *)
CheckRedirect(sent, u, answer) ==
    IF sent >= maxRedirects THEN [ok |-> FALSE, resolved |-> FALSE]
    ELSE validateParsedURL(u, answer)

(* The record of a validation: the answer is kept if the resolver was asked *)
Checked(u, answer, verdict) ==
    [url |-> u, ok |-> verdict.ok, resolved |-> verdict.resolved,
     answer |-> IF verdict.resolved THEN answer ELSE NoAnswer]

(* WebEnricher.Enrich / PodcastEnricher.Enrich up to the request:
   validateFetchURL(ctx, rawURL), an error returned at once *)
FetchStart(u, answer) ==
    /\ fetchPC = "idle"
    /\ LET verdict == validateParsedURL(u, answer)
       IN /\ lastCheck' = Checked(u, answer, verdict)
          /\ fetchPC' = IF verdict.ok THEN "connect" ELSE "rejected"
    /\ target' = u
    /\ UNCHANGED <<via, lastDial>>
    /\ UNCHANGED <<pipeVars, regVars, resetVars, workerVars, partVars, cacheVars, normVars, readVars, sessVars>>

(* e.client.Do(req), one request: the transport connects to the literal IP
   of the target, or to an address the resolver gives it now for the name.
   The answer validation saw is not handed on to the transport *)
FetchConnect(ip) ==
    /\ fetchPC = "connect"
    /\ target.HostIP # <<>> => ip = target.HostIP
    /\ lastDial' = ip
    /\ via' = via + 1
    /\ fetchPC' = "response"
    /\ lastCheck' = [lastCheck EXCEPT !.answer = NoAnswer]
    /\ UNCHANGED target
    /\ UNCHANGED <<pipeVars, regVars, resetVars, workerVars, partVars, cacheVars, normVars, readVars, sessVars>>

(* e.client.Do(req) fails: no address, no connection, a timeout *)
FetchFail ==
    /\ fetchPC = "connect"
    /\ fetchPC' = "failed"
    /\ UNCHANGED <<target, via, lastCheck, lastDial>>
    /\ UNCHANGED <<pipeVars, regVars, resetVars, workerVars, partVars, cacheVars, normVars, readVars, sessVars>>

(* The response is no redirect: Do returns it *)
FetchFinal ==
    /\ fetchPC = "response"
    /\ fetchPC' = "done"
    /\ UNCHANGED <<target, via, lastCheck, lastDial>>
    /\ UNCHANGED <<pipeVars, regVars, resetVars, workerVars, partVars, cacheVars, normVars, readVars, sessVars>>

(* The response redirects to u: the client asks CheckRedirect and follows
   the redirect only if it returns nil *)
FetchRedirect(u, answer) ==
    /\ fetchPC = "response"
    /\ LET verdict == CheckRedirect(via, u, answer)
       IN /\ lastCheck' = Checked(u, answer, verdict)
          /\ fetchPC' = IF verdict.ok THEN "connect" ELSE "rejected"
          /\ target' = IF verdict.ok THEN u ELSE target
    /\ UNCHANGED <<via, lastDial>>
    /\ UNCHANGED <<pipeVars, regVars, resetVars, workerVars, partVars, cacheVars, normVars, readVars, sessVars>>

----------------------------------------------------------------------------
(* internal/urlutil: NormalizeURL.  A URL text is held by its components:  *)
(* the white space before it, the scheme before "://", the authority up to *)
(* the path, the path, the query as its key=value pairs in order, and the  *)
(* fragment after "#".  Each component is text, a sequence of characters.  *)

(* The characters of keys and values in byte order *)
ASCII == <<"0", "1", "2", "3", "4", "5", "6", "7", "8", "9", "A", "B", "C", "D", "E", "F", "G", "H", "I", "J", "K", "L", "M", "N", "O", "P", "Q", "R", "S", "T", "U", "V", "W", "X", "Y", "Z", "_", "a", "b", "c", "d", "e", "f", "g", "h", "i", "j", "k", "l", "m", "n", "o", "p", "q", "r", "s", "t", "u", "v", "w", "x", "y", "z">>

CharCode(c) == CHOOSE i \in 1..Len(ASCII) : ASCII[i] = c

(* a < b for strings, as sort.Strings compares them *)
RECURSIVE StrLess(_, _)
StrLess(a, b) ==
    IF b = <<>> THEN FALSE
    ELSE IF a = <<>> THEN TRUE
    ELSE IF Head(a) = Head(b) THEN StrLess(Tail(a), Tail(b))
    ELSE CharCode(Head(a)) < CharCode(Head(b))

Digits == {"0", "1", "2", "3", "4", "5", "6", "7", "8", "9"}

(* strings.LastIndex for a one-character separator; 0 when it is absent *)
LastIndex(str, c) ==
    IF \E i \in 1..Len(str) : str[i] = c
    THEN CHOOSE i \in 1..Len(str) :
             str[i] = c /\ \A j \in (i + 1)..Len(str) : str[j] # c
    ELSE 0

(* strings.TrimRight(str, c) for a one-character cutset *)
RECURSIVE TrimRightOf(_, _)
TrimRightOf(str, c) ==
    IF str # <<>> /\ str[Len(str)] = c
    THEN TrimRightOf(SubSeq(str, 1, Len(str) - 1), c) ELSE str

trackingParams ==
    {<<"f", "b", "c", "l", "i", "d">>,
     <<"g", "c", "l", "i", "d">>,
     <<"m", "c", "_", "c", "i", "d">>,
     <<"m", "c", "_", "e", "i", "d">>,
     <<"r", "e", "f">>,
     <<"r", "e", "f", "_", "s", "r", "c">>,
     <<"u", "t", "m", "_", "c", "a", "m", "p", "a", "i", "g", "n">>,
     <<"u", "t", "m", "_", "c", "o", "n", "t", "e", "n", "t">>,
     <<"u", "t", "m", "_", "i", "d">>,
     <<"u", "t", "m", "_", "m", "e", "d", "i", "u", "m">>,
     <<"u", "t", "m", "_", "s", "o", "u", "r", "c", "e">>,
     <<"u", "t", "m", "_", "t", "e", "r", "m">>,
     <<"u", "t", "m", "_", "r", "e", "a", "d", "e", "r">>,
     <<"u", "t", "m", "_", "n", "a", "m", "e">>,
     <<"u", "t", "m", "_", "r", "e", "f", "e", "r", "r", "e", "r">>,
     <<"u", "t", "m", "_", "s", "o", "c", "i", "a", "l">>,
     <<"u", "t", "m", "_", "s", "o", "c", "i", "a", "l", "_", "t", "y", "p", "e">>}

(* A URL text by its components *)
Text(lead, scheme, authority, path, query, fragment) ==
    [lead |-> lead, scheme |-> scheme, authority |-> authority,
     path |-> path, query |-> query, fragment |-> fragment]

(* The empty string *)
EmptyText == Text(<<>>, <<>>, <<>>, <<>>, <<>>, <<>>)

(* A url.URL, and the zero value *)
URL(Scheme, Host, Path, RawQuery, Fragment) ==
    [Scheme |-> Scheme, Host |-> Host, Path |-> Path,
     RawQuery |-> RawQuery, Fragment |-> Fragment]

NoParsed == URL(<<>>, <<>>, <<>>, <<>>, <<>>)

(* net/url validOptionalPort: "" or ":" followed by digits *)
validOptionalPort(port) ==
    \/ port = <<>>
    \/ /\ Head(port) = ":"
       /\ \A i \in 2..Len(port) : port[i] \in Digits

(* net/url parseHost: whether url.Parse accepts the authority *)
parseHost(host) ==
    IF host # <<>> /\ Head(host) = "["
    THEN /\ LastIndex(host, "]") # 0
         /\ validOptionalPort(SubSeq(host, LastIndex(host, "]") + 1, Len(host)))
    ELSE LastIndex(host, ":") # 0
             => validOptionalPort(SubSeq(host, LastIndex(host, ":"), Len(host)))

(* url.Parse: a text without a scheme is a path, the scheme is lowercased,
   the authority is kept as it is written once parseHost accepts it *)
Parse(text) ==
    IF text.scheme = <<>>
    THEN [ok |-> TRUE,
          url |-> URL(<<>>, <<>>, text.authority \o text.path, text.query,
                      text.fragment)]
    ELSE IF ~parseHost(text.authority)
    THEN [ok |-> FALSE, url |-> NoParsed]
    ELSE [ok |-> TRUE,
          url |-> URL(ToLower(text.scheme), text.authority, text.path,
                      text.query, text.fragment)]

(* net/url splitHostPort, behind URL.Hostname and URL.Port: the text after
   the last colon is the port when it is made of digits, and a host inside
   brackets loses them *)
splitHostPort(hostPort) ==
    LET colon == LastIndex(hostPort, ":")
        split == colon # 0
                 /\ validOptionalPort(SubSeq(hostPort, colon, Len(hostPort)))
        host == IF split THEN SubSeq(hostPort, 1, colon - 1) ELSE hostPort
        port == IF split THEN SubSeq(hostPort, colon + 1, Len(hostPort))
                ELSE <<>>
    IN  [host |-> IF Len(host) >= 2 /\ Head(host) = "[" /\ host[Len(host)] = "]"
                  THEN SubSeq(host, 2, Len(host) - 1) ELSE host,
         port |-> port]

Hostname(u) == splitHostPort(u.Host).host

Port(u) == splitHostPort(u.Host).port

(* net.JoinHostPort: a host holding a colon is put inside brackets *)
JoinHostPort(host, port) ==
    IF \E i \in 1..Len(host) : host[i] \in {":", "%"}
    THEN <<"[">> \o host \o <<"]", ":">> \o port
    ELSE host \o <<":">> \o port

(* The values of one key among the pairs of a query, in their order *)
RECURSIVE ValuesOf(_, _)
ValuesOf(pairs, key) ==
    IF pairs = <<>> THEN <<>>
    ELSE IF Head(pairs)[1] = key
    THEN <<Head(pairs)[2]>> \o ValuesOf(Tail(pairs), key)
    ELSE ValuesOf(Tail(pairs), key)

(* URL.Query: the url.Values map, key -> its values in order *)
Query(u) ==
    [key \in {u.RawQuery[i][1] : i \in 1..Len(u.RawQuery)} |->
        ValuesOf(u.RawQuery, key)]

(* The test of the deletion loop on one key; the first form compares the
   key as it is written *)
IsTracking_CaseSensitive(key) == key \in trackingParams

IsTracking(key) == ToLower(key) \in trackingParams

(* The loop over the keys with Values.Del *)
DelTracking(query) ==
    [key \in {k \in DOMAIN query : ~IsTracking(k)} |-> query[key]]

(* Values.Encode: the keys sorted, each with its values in order *)
RECURSIVE EncodeKeys(_, _)
EncodeKeys(query, keys) ==
    IF keys = {} THEN <<>>
    ELSE LET key == CHOOSE k \in keys : \A o \in keys \ {k} : StrLess(k, o)
         IN  [i \in 1..Len(query[key]) |-> <<key, query[key][i]>>]
                 \o EncodeKeys(query, keys \ {key})

Encode(query) == EncodeKeys(query, DOMAIN query)

(* URL.String: scheme, "//", Host, path, "?" and RawQuery, "#" and Fragment *)
String(u) == Text(<<>>, u.Scheme, u.Host, u.Path, u.RawQuery, u.Fragment)

(* What NormalizeURL returns, and the value of a call not made yet *)
NormReturn(text, err) == [text |-> text, err |-> err]

NoReturnYet == NormReturn(EmptyText, "not called")

NormalizeURL(raw) ==
    LET trimmed == [raw EXCEPT !.lead = TrimSpace(raw.lead)]
        parse == Parse(trimmed)
        parsed == parse.url
        host == ToLower(Hostname(parsed))
        scheme == ToLower(parsed.Scheme)
        port == IF \/ scheme = TextHTTP /\ Port(parsed) = <<"8", "0">>
                   \/ scheme = TextHTTPS /\ Port(parsed) = <<"4", "4", "3">>
                THEN <<>> ELSE Port(parsed)
        trimmedPath == TrimRightOf(parsed.Path, "/")
        path == IF parsed.Path = <<"/">> THEN parsed.Path
                ELSE IF trimmedPath = <<>> THEN <<"/">> ELSE trimmedPath
    IN  IF trimmed = EmptyText THEN NormReturn(EmptyText, "empty url")
        ELSE IF ~parse.ok THEN NormReturn(EmptyText, "invalid url: parse")
        ELSE IF parsed.Scheme = <<>> \/ parsed.Host = <<>>
        THEN NormReturn(EmptyText, "invalid url")
        ELSE NormReturn(
                 String(URL(scheme,
                            IF port # <<>> THEN JoinHostPort(host, port)
                            ELSE host,
                            path,
                            Encode(DelTracking(Query(parsed))),
                            <<>>)),
                 NULL)

(* The URL texts NormalizeURL is called with *)
LeadingSpace == {<<>>, <<" ">>}

URLSchemes == {<<>>, TextHTTP, TextHTTPS, <<"H", "T", "T", "P">>}

Authorities ==
    {<<>>,
     <<"a", ".", "i", "o">>,
     <<"A", ".", "i", "o">>,
     <<"a", ".", "i", "o", ":", "8", "0">>,
     <<"a", ".", "i", "o", ":", "4", "4", "3">>,
     <<"a", ".", "i", "o", ":", "8", "0", "8", "0">>,
     <<"a", ".", "i", "o", ":", "x">>,
     <<"[", ":", ":", "1", "]">>,
     <<"[", ":", ":", "a", "]">>,
     <<"[", ":", ":", "1", "]", ":", "8", "0", "8", "0">>,
     <<"[", ":", ":", "1">>}

Paths ==
    {<<>>, <<"/">>, <<"/", "a">>, <<"/", "a", "/">>, <<"/", "a", "/", "/">>}

QueryPairs ==
    {<<<<"i", "d">>, <<"1">>>>,
     <<<<"i", "d">>, <<"2">>>>,
     <<<<"b">>, <<"1">>>>,
     <<<<"R", "e", "f">>, <<"1">>>>}

TrackingPairs ==
    {<<<<"u", "t", "m", "_", "s", "o", "u", "r", "c", "e">>, <<"1">>>>,
     <<<<"F", "b", "c", "l", "i", "d">>, <<"2">>>>}

(* Every combination of the components without white space, and the ones
   without a query after white space *)
RawURLs ==
    {Text(<<>>, scheme, authority, path, query, <<>>) :
        scheme \in URLSchemes, authority \in Authorities, path \in Paths,
        query \in SeqsUpTo(QueryPairs, MaxParams)}
    \cup {Text(lead, scheme, authority, path, <<>>, <<>>) :
            lead \in LeadingSpace, scheme \in URLSchemes,
            authority \in Authorities, path \in Paths}

(* The pairs with one more put in after the first at of them *)
InsertAt(pairs, at, pair) ==
    SubSeq(pairs, 1, at) \o <<pair>> \o SubSeq(pairs, at + 1, Len(pairs))

(* The URL texts that differ from raw in a tracking parameter, in the
   fragment, in the case of the host or of the scheme, or in a trailing
   slash *)
Variants(raw) ==
    {[raw EXCEPT !.query = InsertAt(raw.query, at, pair)] :
        at \in 0..Len(raw.query), pair \in TrackingPairs}
    \cup {[raw EXCEPT !.fragment = <<"s">>]}
    \cup {[raw EXCEPT !.authority = authority] :
            authority \in {a \in Authorities \ {raw.authority} :
                               ToLower(a) = ToLower(raw.authority)}}
    \cup {[raw EXCEPT !.scheme = scheme] :
            scheme \in {s \in URLSchemes \ {raw.scheme} :
                            ToLower(s) = ToLower(raw.scheme)}}
    \cup {[raw EXCEPT !.path = raw.path \o <<"/">>]}

(* A caller hands one of the texts to NormalizeURL *)
NormalizeCall ==
    /\ normalized = NoReturnYet
    /\ \E raw \in RawURLs :
           /\ rawURL' = raw
           /\ normalized' = NormalizeURL(raw)
    /\ again' = NoReturnYet
    /\ variant' = EmptyText
    /\ variantNormalized' = NoReturnYet
    /\ UNCHANGED <<pipeVars, regVars, resetVars, workerVars, partVars, cacheVars, fetchVars, readVars, sessVars>>

(* The caller hands the string it got back to NormalizeURL *)
NormalizeAgain ==
    /\ normalized.err = NULL
    /\ again = NoReturnYet
    /\ again' = NormalizeURL(normalized.text)
    /\ UNCHANGED <<rawURL, normalized, variant, variantNormalized>>
    /\ UNCHANGED <<pipeVars, regVars, resetVars, workerVars, partVars, cacheVars, fetchVars, readVars, sessVars>>

(* A caller hands NormalizeURL a text that differs from the last one only
   in what normalization is to ignore *)
NormalizeVariant ==
    /\ normalized # NoReturnYet
    /\ variantNormalized = NoReturnYet
    /\ \E v \in Variants(rawURL) :
           /\ variant' = v
           /\ variantNormalized' = NormalizeURL(v)
    /\ UNCHANGED <<rawURL, normalized, again>>
    /\ UNCHANGED <<pipeVars, regVars, resetVars, workerVars, partVars, cacheVars, fetchVars, readVars, sessVars>>

----------------------------------------------------------------------------
(* internal/enricher: the reading-time estimate of the Web strategy.  A    *)
(* parsed document is held by the word counts countWords finds under the   *)
(* elements findPrimaryContentNode looks for; a pointer to an int is <<>>  *)
(* (nil) or <<n>>; Result.Metadata is a set of <<key, value>> pairs.       *)

SourceTypes == {"youtube", "podcast", "article", "doc", "other"}

(* Words outside the primary element, as in the tests *)
otherWords == readingWordsPerMinute

(* The documents html.Parse returns: a body always, an article and a main
   element or not, and w words under the first of article, main, body *)
Docs ==
    UNION {
        {[n \in {"body", "document"} |-> w],
         [n \in {"main", "body", "document"} |->
             IF n = "main" THEN w ELSE w + otherWords],
         [n \in {"article", "body", "document"} |->
             IF n = "article" THEN w ELSE w + otherWords],
         [n \in {"article", "main", "body", "document"} |->
             IF n = "article" THEN w
             ELSE IF n = "main" THEN otherWords ELSE w + 2 * otherWords]}
        : w \in 0..MaxWords}

findPrimaryContentNode(doc) ==
    IF "article" \in DOMAIN doc THEN "article"
    ELSE IF "main" \in DOMAIN doc THEN "main"
    ELSE IF "body" \in DOMAIN doc THEN "body"
    ELSE "document"

countWords(doc, n) == doc[n]

shouldEstimateReadTime(sourceType) == sourceType \in {"article", "doc", "other"}

(* minutes of estimateReadingTimeSeconds; the first form rounds down *)
minutes_RoundDown(words) == words \div readingWordsPerMinute

minutes(words) ==
    (words + readingWordsPerMinute - 1) \div readingWordsPerMinute

(* estimateReadingTimeSeconds: <<seconds, words>> *)
estimateReadingTimeSeconds(doc) ==
    LET root == findPrimaryContentNode(doc)
        words == countWords(doc, root)
    IN  IF words = 0 THEN <<0, 0>> ELSE <<minutes(words) * 60, words>>

(* enricher.Result as far as the estimate goes, and before any Enrich *)
WebResult(SourceType, RuntimeSeconds, Metadata) ==
    [SourceType |-> SourceType, RuntimeSeconds |-> RuntimeSeconds,
     Metadata |-> Metadata]

NoWebResult == WebResult(NULL, <<>>, {})

(* WebEnricher.Enrich from the parsed document on: the result is built
   with no runtime, and the estimate fills it in for the source types that
   are read *)
WebEnrichDoc ==
    /\ webResult = NoWebResult
    /\ \E doc \in Docs, sourceType \in SourceTypes :
           LET estimate == estimateReadingTimeSeconds(doc)
               seconds == estimate[1]
               words == estimate[2]
           IN  /\ webDoc' = doc
               /\ webResult' =
                      IF shouldEstimateReadTime(sourceType) /\ seconds > 0
                      THEN WebResult(sourceType, <<seconds>>,
                                     {<<"read_time_seconds", seconds>>,
                                      <<"word_count", words>>})
                      ELSE WebResult(sourceType, <<>>, {})
    /\ UNCHANGED <<pipeVars, regVars, resetVars, workerVars, partVars, cacheVars, fetchVars, normVars, sessVars>>

(* The result is handed back and the strategy is ready for another page *)
WebReturn ==
    /\ webResult # NoWebResult
    /\ webDoc' = <<>>
    /\ webResult' = NoWebResult
    /\ UNCHANGED <<pipeVars, regVars, resetVars, workerVars, partVars, cacheVars, fetchVars, normVars, sessVars>>

----------------------------------------------------------------------------
(* internal/session: the session store.  The sessions table is a set of    *)
(* rows, time is a count of clock ticks, and the store's ttl is TTL ticks. *)

Tokens == {"t1", "t2"}

(* The rows of the sessions table that hold a token *)
SessionRows(table, token) == {row \in table : row.token = token}

(* INSERT INTO sessions ... ON CONFLICT DO NOTHING: the table, and whether
   a row was inserted (RowsAffected() == 1) *)
InsertSession(table, token, expires_at) ==
    IF SessionRows(table, token) # {}
    THEN [table |-> table, inserted |-> FALSE]
    ELSE [table |-> table \cup {[token |-> token, expires_at |-> expires_at]},
          inserted |-> TRUE]

(* The sequences of tokens generateToken can return to one Create *)
Generated == [1..maxCreateAttempts -> Tokens]

(* Store.Create: the first generated token that is not in the table is
   stored and returned; NULL when every attempt met a conflict *)
CreatedToken(table, gen) ==
    IF \E i \in 1..maxCreateAttempts : SessionRows(table, gen[i]) = {}
    THEN gen[CHOOSE i \in 1..maxCreateAttempts :
                 /\ SessionRows(table, gen[i]) = {}
                 /\ \A j \in 1..(i - 1) : SessionRows(table, gen[j]) # {}]
    ELSE NULL

(* DELETE FROM sessions WHERE token = $1 *)
DeleteSession(table, token) == table \ SessionRows(table, token)

(* The WHERE clause of Refresh beside the token; the first form updates an
   expired row as well *)
StillValid_Always(row, at) == TRUE

StillValid(row, at) == row.expires_at > at

(* UPDATE sessions SET expires_at = $2 WHERE token = $1 AND expires_at >
   NOW(); the first form inserts the row when there is none *)
RefreshSession_Upsert(table, token, at) ==
    DeleteSession(table, token)
        \cup {[token |-> token, expires_at |-> at + TTL]}

RefreshSession(table, token, at) ==
    {IF row.token = token /\ StillValid(row, at)
     THEN [row EXCEPT !.expires_at = at + TTL] ELSE row : row \in table}

(* DELETE FROM sessions WHERE expires_at <= NOW() *)
CleanupSessions(table, at) == {row \in table : ~(row.expires_at <= at)}

(* What Valid has just returned, for which token and when, with what the
   store had promised for the token; NoValid once another call is made *)
NoValid == [token |-> NULL, ret |-> FALSE, at |-> 0, since |-> 0, due |-> 0,
            issued |-> FALSE, deleted |-> FALSE]

(* For each token handed out, when it was created and the expiry promised
   for it: creation or the last Refresh before the expiry, plus the ttl *)
NoDue == [token \in Tokens |-> [since |-> 0, until |-> 0]]

SessionCreate ==
    /\ \E gen \in Generated :
           LET token == CreatedToken(sessions, gen)
           IN  IF token = NULL
               THEN UNCHANGED <<sessions, due, issued, deleted>>
               ELSE /\ sessions' =
                           InsertSession(sessions, token, now + TTL).table
                    /\ due' = [due EXCEPT ![token] =
                                   [since |-> now, until |-> now + TTL]]
                    /\ issued' = issued \cup {token}
                    /\ deleted' = deleted \ {token}
    /\ validRet' = NoValid
    /\ UNCHANGED now
    /\ UNCHANGED <<pipeVars, regVars, resetVars, workerVars, partVars, cacheVars, fetchVars, normVars, readVars>>

(* Store.Valid: false without a row; a row past its expiry is deleted *)
SessionValid(token) ==
    LET found == SessionRows(sessions, token)
        expired == \E row \in found : now > row.expires_at
    IN  /\ validRet' = [token |-> token,
                        ret |-> found # {} /\ ~expired,
                        at |-> now,
                        since |-> due[token].since,
                        due |-> due[token].until,
                        issued |-> token \in issued,
                        deleted |-> token \in deleted]
        /\ sessions' = IF found # {} /\ expired
                       THEN DeleteSession(sessions, token) ELSE sessions
        /\ UNCHANGED <<now, due, issued, deleted>>
        /\ UNCHANGED <<pipeVars, regVars, resetVars, workerVars, partVars, cacheVars, fetchVars, normVars, readVars>>

SessionDelete(token) ==
    /\ sessions' = DeleteSession(sessions, token)
    /\ deleted' = deleted \cup {token}
    /\ issued' = issued \ {token}
    /\ validRet' = NoValid
    /\ UNCHANGED <<now, due>>
    /\ UNCHANGED <<pipeVars, regVars, resetVars, workerVars, partVars, cacheVars, fetchVars, normVars, readVars>>

(* Store.Refresh; a refresh of a token handed out, before its promised
   expiry, moves the promise *)
SessionRefresh(token) ==
    /\ sessions' = RefreshSession(sessions, token, now)
    /\ due' = IF token \in issued /\ now < due[token].until
              THEN [due EXCEPT ![token].until = now + TTL] ELSE due
    /\ validRet' = NoValid
    /\ UNCHANGED <<now, issued, deleted>>
    /\ UNCHANGED <<pipeVars, regVars, resetVars, workerVars, partVars, cacheVars, fetchVars, normVars, readVars>>

(* One tick of Store.cleanup *)
SessionCleanup ==
    /\ sessions' = CleanupSessions(sessions, now)
    /\ sessions' # sessions
    /\ validRet' = NoValid
    /\ UNCHANGED <<now, due, issued, deleted>>
    /\ UNCHANGED <<pipeVars, regVars, resetVars, workerVars, partVars, cacheVars, fetchVars, normVars, readVars>>

(* Time passes *)
ClockTick ==
    /\ now < MaxTime
    /\ now' = now + 1
    /\ validRet' = NoValid
    /\ UNCHANGED <<sessions, due, issued, deleted>>
    /\ UNCHANGED <<pipeVars, regVars, resetVars, workerVars, partVars, cacheVars, fetchVars, normVars, readVars>>

----------------------------------------------------------------------------
(* The refresh handlers over a row with every column of the entries table.  *)
(* The rows of the pipeline above carry the columns the loops read and      *)
(* write; here a row also has its identity, the user's input, the rest of   *)
(* the enrichment result and updated_at, so that what a refresh leaves      *)
(* alone can be compared column by column.                                  *)

(* The columns of Entry that the rows of the pipeline leave out *)
RestOfEntry(created, updated, enriched) ==
    [id |-> 1,
     created_at |-> created,
     updated_at |-> updated,
     normalized_url |-> "n1",
     tags |-> <<"go">>,
     time_spent_seconds |-> <<30>>,
     quantity |-> <<>>,
     notes |-> "note",
     domain |-> IF enriched THEN "example.com" ELSE NULL,
     source_type |-> IF enriched THEN "article" ELSE "other",
     published_at |-> IF enriched THEN <<0>> ELSE <<>>,
     runtime_seconds |-> IF enriched THEN <<60>> ELSE <<>>,
     metadata_json |-> IF enriched THEN "{}" ELSE NULL]

(* What the enrichment columns can hold: the result of the last successful
   enrichment, if there was one, and the status the loop or a refresh wrote
   last (UpdateEnrichmentStatus sets enriched_at for ok and failed) *)
EnrichmentStates ==
    { [enriched |-> en, status |-> st] :
        en \in BOOLEAN,
        st \in {StatusPending, StatusProcessing, StatusOK, StatusFailed} }
    \ { [enriched |-> FALSE, status |-> StatusOK] }

(* What the summary columns can hold, in the same way *)
SummaryStates ==
    { [summarized |-> su, status |-> st] :
        su \in BOOLEAN,
        st \in {StatusPending, StatusProcessing, StatusOK, StatusFailed,
                StatusSkipped} }
    \ { [summarized |-> FALSE, status |-> StatusOK] }

(* A row of the entries table with all 27 columns *)
EntryRow(es, ss, created, updated) ==
    [source_url |-> "u1",
     canonical_url |-> IF es.enriched THEN "c1" ELSE NULL,
     title |-> IF es.enriched THEN "T" ELSE NULL,
     description |-> IF es.enriched THEN "D" ELSE NULL,
     enrichment_status |-> es.status,
     enrichment_error |-> IF es.status = StatusFailed THEN ErrMsg ELSE NULL,
     enriched_at |-> IF es.status \in {StatusOK, StatusFailed}
                     THEN "set" ELSE NULL,
     summary_text |-> IF ss.summarized THEN "s1" ELSE NULL,
     summary_provider |-> IF ss.summarized THEN "gemini" ELSE NULL,
     summary_model |-> IF ss.summarized THEN "gemini-2.5-flash-lite" ELSE NULL,
     summary_version |-> IF ss.summarized THEN "1.0.0" ELSE NULL,
     summary_generated_at |-> IF ss.status = StatusOK THEN "set" ELSE NULL,
     summary_status |-> ss.status,
     summary_error |-> IF ss.status = StatusFailed THEN ErrMsg ELSE NULL]
    @@ RestOfEntry(created, updated, es.enriched)

(* The rows the table can hold under the id of the request; a row never
   written after its INSERT has updated_at = created_at *)
EntryRows ==
    { EntryRow(es, ss, 0, updated) :
        es \in EnrichmentStates, ss \in SummaryStates, updated \in 0..MaxTime }

(* No row under the id of the request *)
NoRow == [id |-> 0]

(* Before the table has been set up *)
NotLoaded == [id |-> -1]

(* updated_at = NOW() of an UPDATE *)
Touched(row, at) == [row EXCEPT !.updated_at = at]

(* The instants NOW() can return for a statement on the row: the clock of
   the database does not run backwards *)
Nows(row) == IF row = NoRow THEN {0} ELSE row.updated_at..MaxTime

NoRefresh == [handler |-> NULL, http |-> 0, before |-> NoRow, after |-> NoRow]

(* A refresh handler: Reset is the repository's statement.  A failed Exec
   answers 500 and changes nothing; a missing row is updated by nothing and
   answers 404 after GetByID returns nil; otherwise the row is rendered *)
RefreshHandler(name, Reset(_), ok, at) ==
    LET after == IF ok /\ stored # NoRow
                 THEN Touched(Reset(stored), at) ELSE stored
    IN  /\ stored' = after
        /\ refreshRet' = [handler |-> name,
                          http |-> IF ~ok THEN 500
                                   ELSE IF after = NoRow THEN 404 ELSE 200,
                          before |-> stored,
                          after |-> after]

(* The table as it stands when the request arrives *)
LoadRow ==
    /\ stored = NotLoaded
    /\ \E row \in EntryRows \cup {NoRow} : stored' = row
    /\ UNCHANGED refreshRet
    /\ UNCHANGED <<pipeVars, regVars, cacheVars, fetchVars, normVars,
                   readVars, sessVars, workerVars, partVars>>

(* EntryHandler.RefreshEnrichment *)
HandleRefreshEnrichment ==
    /\ stored # NotLoaded
    /\ refreshRet = NoRefresh
    /\ \E ok \in BOOLEAN, at \in Nows(stored) :
          RefreshHandler("RefreshEnrichment", ResetEnrichment, ok, at)
    /\ UNCHANGED <<pipeVars, regVars, cacheVars, fetchVars, normVars,
                   readVars, sessVars, workerVars, partVars>>

(* EntryHandler.RefreshSummary *)
HandleRefreshSummary ==
    /\ stored # NotLoaded
    /\ refreshRet = NoRefresh
    /\ \E ok \in BOOLEAN, at \in Nows(stored) :
          RefreshHandler("RefreshSummary", ResetSummary, ok, at)
    /\ UNCHANGED <<pipeVars, regVars, cacheVars, fetchVars, normVars,
                   readVars, sessVars, workerVars, partVars>>

NextRefresh == LoadRow \/ HandleRefreshEnrichment \/ HandleRefreshSummary

(* A statement that would also put the canonical URL in place of the
   source URL *)
AllColumns_Source(row, result) ==
    [UpdateEnrichmentResult(row, result) EXCEPT
        !.source_url = result.CanonicalURL,
        !.domain = "example.com",
        !.source_type = "article",
        !.published_at = <<0>>,
        !.runtime_seconds = <<60>>,
        !.metadata_json = "{}"]

(* UpdateEnrichmentResult with the columns of its SET list that the rows of
   the pipeline leave out: domain, source_type, published_at,
   runtime_seconds, metadata_json *)
AllColumns(row, result) ==
    [UpdateEnrichmentResult(row, result) EXCEPT
        !.domain = "example.com",
        !.source_type = "article",
        !.published_at = <<0>>,
        !.runtime_seconds = <<60>>,
        !.metadata_json = "{}"]

(* The statements the two loops run on a row, with the arguments the loops
   give them, and the row each would leave *)
LoopWrites(row) ==
    {[statement |-> "UpdateEnrichmentStatus",
      row |-> UpdateEnrichmentStatus(row, StatusProcessing, NULL)],
     [statement |-> "UpdateEnrichmentStatus",
      row |-> UpdateEnrichmentStatus(row, StatusFailed, ErrMsg)],
     [statement |-> "UpdateSummaryStatus",
      row |-> UpdateSummaryStatus(row, StatusSkipped, NULL)],
     [statement |-> "UpdateSummaryStatus",
      row |-> UpdateSummaryStatus(row, StatusProcessing, NULL)],
     [statement |-> "UpdateSummaryStatus",
      row |-> UpdateSummaryStatus(row, StatusFailed, ErrMsg)]}
    \cup {[statement |-> "UpdateEnrichmentResult",
           row |-> AllColumns(row, result)] : result \in EnrichResults}
    \cup {[statement |-> "UpdateSummaryResult",
           row |-> UpdateSummaryResult(row, result)] : result \in SummaryResults}

LoopStatements ==
    {"UpdateEnrichmentStatus", "UpdateEnrichmentResult",
     "UpdateSummaryStatus", "UpdateSummaryResult"}

(* A loop runs one of its statements on the row; every one of them sets
   updated_at = NOW(), and a failed Exec changes nothing *)
LoopWrite ==
    /\ stored \notin {NotLoaded, NoRow}
    /\ refreshRet = NoRefresh
    /\ \E ok \in BOOLEAN, at \in Nows(stored), write \in LoopWrites(stored) :
          LET after == IF ok THEN Touched(write.row, at) ELSE stored
          IN  /\ stored' = after
              /\ refreshRet' = [handler |-> write.statement, http |-> 0,
                                before |-> stored, after |-> after]
    /\ UNCHANGED <<pipeVars, regVars, cacheVars, fetchVars, normVars,
                   readVars, sessVars, workerVars, partVars>>

NextLoopWrite == LoadRow \/ LoopWrite

----------------------------------------------------------------------------
(* internal/enricher: what the strategies read of a response body.  A body *)
(* is held by its length in bytes; a strategy hands a prefix of it to its   *)
(* parser.                                                                  *)

(* io.LimitReader(resp.Body, 1024*1024) of the web and podcast strategies *)
bodyLimit == 1024 * 1024

(* Status codes of a response *)
HTTPStatuses == {200, 302, 404, 500}

(* Body lengths about the limit: short bodies, bodies of the limit's length
   give or take a few bytes, bodies of twice the limit *)
BodyLengths ==
    (0..MaxOver)
    \cup {bodyLimit - k : k \in 0..MaxOver}
    \cup {bodyLimit + k : k \in 0..MaxOver}
    \cup {2 * bodyLimit + k : k \in 0..MaxOver}

Responses == [status : HTTPStatuses, len : BodyLengths]

NoResponse == [status |-> 0, len |-> 0]

NoRead == [strategy |-> NULL, err |-> FALSE, parsed |-> 0]

(* io.ReadAll(io.LimitReader(r, n)): the bytes it returns of a body *)
LimitReader(len, n) == IF len < n THEN len ELSE n

(* json.NewDecoder(r).Decode(&v) on a body that is one JSON document: the
   decoder buffers the document to its end *)
Decode(len) == len

(* WebEnricher.Enrich from the response on: a status of 400 or more is an
   error; otherwise at most 1 MB of the body is read and parsed as HTML *)
WebReadBody ==
    /\ bodyRead = NoRead
    /\ \E r \in Responses :
          /\ response' = r
          /\ bodyRead' = IF r.status >= 400
                         THEN [strategy |-> "web", err |-> TRUE, parsed |-> 0]
                         ELSE [strategy |-> "web", err |-> FALSE,
                               parsed |-> LimitReader(r.len, bodyLimit)]
    /\ UNCHANGED <<pipeVars, regVars, coreLibVars, createVars, truncVars>>

(* PodcastEnricher.Enrich from the response on: as the web strategy *)
PodcastReadBody ==
    /\ bodyRead = NoRead
    /\ \E r \in Responses :
          /\ response' = r
          /\ bodyRead' = IF r.status >= 400
                         THEN [strategy |-> "podcast", err |-> TRUE, parsed |-> 0]
                         ELSE [strategy |-> "podcast", err |-> FALSE,
                               parsed |-> LimitReader(r.len, bodyLimit)]
    /\ UNCHANGED <<pipeVars, regVars, coreLibVars, createVars, truncVars>>

(* YouTubeEnricher.Enrich from the response on: a status other than 200 is
   an error; otherwise the JSON decoder reads from resp.Body itself *)
YouTubeReadBody ==
    /\ bodyRead = NoRead
    /\ \E r \in Responses :
          /\ response' = r
          /\ bodyRead' = IF r.status # 200
                         THEN [strategy |-> "youtube", err |-> TRUE, parsed |-> 0]
                         ELSE [strategy |-> "youtube", err |-> FALSE,
                               parsed |-> Decode(r.len)]
    /\ UNCHANGED <<pipeVars, regVars, coreLibVars, createVars, truncVars>>

NextBody == WebReadBody \/ PodcastReadBody \/ YouTubeReadBody

----------------------------------------------------------------------------
(* internal/handler: EntryHandler.Create over the entries table, as far as *)
(* the duplicate check goes.  A request is served in two calls of the       *)
(* database, the duplicate lookup and the INSERT; other requests are served *)
(* in between.                                                              *)

Requests == 1..MaxRequests

(* What users type into the url field: nothing, white space, a URL, the
   same URL written differently, a text without a scheme (with and without
   white space before it), a URL without a host *)
FormURLs ==
    {EmptyText,
     Text(<<" ">>, <<>>, <<>>, <<>>, <<>>, <<>>),
     Text(<<>>, TextHTTP, <<"a", ".", "i", "o">>, <<"/", "a">>, <<>>, <<>>),
     Text(<<" ">>, <<"H", "T", "T", "P">>, <<"A", ".", "i", "o">>,
          <<"/", "a", "/">>, <<>>, <<>>),
     Text(<<>>, <<>>, <<"a", ".", "i", "o">>, <<"/", "a">>, <<>>, <<>>),
     Text(<<" ">>, <<>>, <<"a", ".", "i", "o">>, <<"/", "a">>, <<>>, <<>>),
     Text(<<>>, TextHTTP, <<>>, <<"/", "a">>, <<>>, <<>>)}

(* A request not made yet *)
NoCreate ==
    [pc |-> "none", form |-> EmptyText, allowDuplicate |-> FALSE,
     url |-> EmptyText, normalizedURL |-> EmptyText, answer |-> NULL]

(* A handler that would take what NormalizeURL returns, error or not *)
DedupKey_NoFallback(url, norm) == norm.text

(* normalizedURL := url; if normalized, err := urlutil.NormalizeURL(url);
   err == nil { normalizedURL = normalized } *)
DedupKey(url, norm) == IF norm.err = NULL THEN norm.text ELSE url

(* GetLatestByNormalizedURL finds a row: WHERE normalized_url = $1 *)
HasDuplicate(normalizedURL) ==
    \E k \in 1..Len(entryTable) : entryTable[k].normalized_url = normalizedURL

(* EntryHandler.Create up to the INSERT: the url field trimmed, "URL is
   required" for an empty one, the dedup key, and without allow_duplicate
   the lookup of a duplicate, which can fail or find one *)
Received(form, allowDuplicate, okQuery) ==
    LET url == [form EXCEPT !.lead = TrimSpace(form.lead)]
        normalizedURL == DedupKey(url, NormalizeURL(url))
        request == [pc |-> "done", form |-> form,
                    allowDuplicate |-> allowDuplicate,
                    url |-> url, normalizedURL |-> normalizedURL,
                    answer |-> NULL]
    IN  IF url = EmptyText
        THEN [request EXCEPT !.answer = "URL is required",
                             !.normalizedURL = EmptyText]
        ELSE IF ~allowDuplicate /\ ~okQuery
        THEN [request EXCEPT !.answer = "Failed to check duplicates"]
        ELSE IF ~allowDuplicate /\ HasDuplicate(normalizedURL)
        THEN [request EXCEPT !.answer = "DuplicateWarning"]
        ELSE [request EXCEPT !.pc = "insert"]

CreateCheck(r) ==
    /\ creates[r].pc = "none"
    /\ \E form \in FormURLs, allowDuplicate, okQuery \in BOOLEAN :
          creates' = [creates EXCEPT ![r] = Received(form, allowDuplicate, okQuery)]
    /\ UNCHANGED entryTable
    /\ UNCHANGED <<pipeVars, regVars, coreLibVars, bodyVars, truncVars>>

(* EntryHandler.Create from parseTag on: a tag that does not parse and a
   failed INSERT are answered with an error; otherwise the row is inserted
   with the trimmed url and the dedup key *)
CreateInsert(r) ==
    /\ creates[r].pc = "insert"
    /\ \E tagOK, ok \in BOOLEAN :
          /\ creates' = [creates EXCEPT
                 ![r].pc = "done",
                 ![r].answer = IF ~tagOK THEN "invalid tag"
                               ELSE IF ~ok THEN "Failed to create entry"
                               ELSE "Entry saved"]
          /\ entryTable' =
                 IF tagOK /\ ok
                 THEN Append(entryTable,
                             [source_url |-> creates[r].url,
                              normalized_url |-> creates[r].normalizedURL])
                 ELSE entryTable
    /\ UNCHANGED <<pipeVars, regVars, coreLibVars, bodyVars, truncVars>>

NextCreate == \E r \in Requests : CreateCheck(r) \/ CreateInsert(r)

----------------------------------------------------------------------------
(* internal/enricher, YouTube strategy: truncateDescription.  A description *)
(* is a sequence of one-byte characters.                                    *)

(* len(desc) > 500, desc[:500] *)
descriptionLimit == 500

(* idx > 200 *)
sentenceFloor == 200

(* strings.LastIndex(str, sep): the index, counted from 0, of the last
   occurrence of sep in str, and -1 when there is none *)
LastIndexOf(str, sep) ==
    LET at == {i \in 0..(Len(str) - Len(sep)) :
                  SubSeq(str, i + 1, i + Len(sep)) = sep}
    IN  IF at = {} THEN -1 ELSE CHOOSE i \in at : \A j \in at : j <= i

SentenceEnd == <<".", " ">>

(* "..." *)
Ellipsis == <<".", ".", ".">>

truncateDescription(desc) ==
    IF Len(desc) > descriptionLimit
    THEN LET idx == LastIndexOf(SubSeq(desc, 1, descriptionLimit), SentenceEnd)
         IN  IF idx > sentenceFloor THEN SubSeq(desc, 1, idx + 1)
             ELSE SubSeq(desc, 1, descriptionLimit) \o Ellipsis
    ELSE desc

(* Lengths of descriptions: short ones, lengths about the limit, twice the
   limit *)
DescriptionLengths ==
    (0..MaxOver)
    \cup {descriptionLimit - k : k \in 0..MaxOver}
    \cup {descriptionLimit + k : k \in 0..MaxOver}
    \cup {2 * descriptionLimit}

(* Where the full stops of the sentence ends are, counted from 0: nowhere,
   before and about index 200, in the middle, about index 500 *)
SentenceEnds ==
    {{}, {100}, {199}, {200}, {201}, {202}, {300}, {497}, {498}, {499}, {500},
     {100, 200}, {100, 300}, {201, 300}, {300, 498}, {201, 499}, {300, 500}}

(* The description of n letters with sentence ends at the indices of ends *)
Description(n, ends) ==
    [i \in 1..n |-> IF i - 1 \in ends THEN "."
                    ELSE IF i - 2 \in ends THEN " " ELSE "a"]

Descriptions ==
    {Description(n, ends) : n \in DescriptionLengths, ends \in SentenceEnds}

(* No description, and no result of truncateDescription yet *)
NoDescription == <<>>

NotTruncated == [called |-> FALSE, text |-> <<>>]

(* YouTubeEnricher.Enrich: Description: truncateDescription(snippet.Description) *)
TruncateCall ==
    /\ ~truncated.called
    /\ \E desc \in Descriptions :
          /\ descr' = desc
          /\ truncated' = [called |-> TRUE, text |-> truncateDescription(desc)]
    /\ UNCHANGED <<pipeVars, regVars, coreLibVars, bodyVars, createVars>>

NextTruncate == TruncateCall

----------------------------------------------------------------------------
(* internal/enricher: the strategies and the registry.  enricher.go holds   *)
(* two definitions of NewRegistry and of Registry.Enrich; the registry      *)
(* records which one built it and runs the matching Enrich.                 *)

(* The strategies of the repository, by Name() *)
Strategies == {"youtube", "podcast", "web"}

YouTubePriority == 10

PodcastPriority == 20

WebPriority == 100

(* Enricher.Priority() *)
Priority(e) ==
    CASE e = "youtube" -> YouTubePriority
      [] e = "podcast" -> PodcastPriority
      [] e = "web" -> WebPriority

(* URLs handed to the registry, one of each shape the strategies tell apart *)
RegistryURLs ==
    {"https://youtu.be/dQw4w9WgXcQ", "https://podcasts.apple.com/us/podcast/id1?i=2",
     "https://example.com/post"}

(* Enricher.CanHandle(url): the YouTube patterns, the podcast host, and the
   web strategy's constant true *)
CanHandle(e, url) ==
    CASE e = "youtube" -> url = "https://youtu.be/dQw4w9WgXcQ"
      [] e = "podcast" -> url = "https://podcasts.apple.com/us/podcast/id1?i=2"
      [] e = "web" -> TRUE

NoRegistry == [enrichers |-> <<>>, fallback |-> NULL, def |-> 0]

(* NewRegistry, first definition: panics if fallback is nil *)
NewRegistry(fallback) ==
    IF fallback = NULL
    THEN [panic |-> TRUE, registry |-> NoRegistry]
    ELSE [panic |-> FALSE,
          registry |-> [enrichers |-> <<>>, fallback |-> fallback, def |-> 1]]

(* NewRegistry, second definition: stores whatever fallback it is given *)
NewRegistry_2(fallback) ==
    [panic |-> FALSE,
     registry |-> [enrichers |-> <<>>, fallback |-> fallback, def |-> 2]]

(* One insertion of sort.Slice's ordering: e goes after the elements whose
   priority is not greater *)
InsertByPriority(sorted, e) ==
    LET k == Cardinality({j \in 1..Len(sorted) : Priority(sorted[j]) <= Priority(e)})
    IN SubSeq(sorted, 1, k) \o <<e>> \o SubSeq(sorted, k + 1, Len(sorted))

RECURSIVE SortSlice(_)
(* sort.Slice(r.enrichers, Priority(i) < Priority(j)) *)
SortSlice(seq) ==
    IF seq = <<>> THEN <<>>
    ELSE InsertByPriority(SortSlice(SubSeq(seq, 1, Len(seq) - 1)), seq[Len(seq)])

(* Registry.Register: append, then sort by priority *)
Register(r, e) == [r EXCEPT !.enrichers = SortSlice(Append(r.enrichers, e))]

(* e.Enrich(ctx, url) of one strategy: it fails for the strategies in fails *)
StrategyEnrich(e, fails, before) ==
    [invoked |-> Append(before, e), by |-> e,
     status |-> IF e \in fails THEN "error" ELSE "ok"]

(* return r.fallback.Enrich(ctx, url): a nil fallback is a nil dereference *)
FallbackEnrich(r, fails, before) ==
    IF r.fallback = NULL
    THEN [invoked |-> before, by |-> NULL, status |-> "panic"]
    ELSE StrategyEnrich(r.fallback, fails, before)

(* Registry.Enrich, first definition: the first enricher that can handle the
   URL is authoritative *)
Enrich(r, url, fails) ==
    LET claim == {k \in 1..Len(r.enrichers) : CanHandle(r.enrichers[k], url)}
    IN IF claim # {}
       THEN StrategyEnrich(r.enrichers[CHOOSE k \in claim : \A j \in claim : k <= j],
                           fails, <<>>)
       ELSE FallbackEnrich(r, fails, <<>>)

RECURSIVE EnrichFrom_2(_, _, _, _, _)
(* Registry.Enrich, second definition, from the k-th enricher on: an enricher
   that can handle the URL but fails is passed over *)
EnrichFrom_2(r, url, fails, k, before) ==
    IF k > Len(r.enrichers) THEN FallbackEnrich(r, fails, before)
    ELSE IF CanHandle(r.enrichers[k], url)
         THEN LET res == StrategyEnrich(r.enrichers[k], fails, before)
              IN IF res.status = "ok" THEN res
                 ELSE EnrichFrom_2(r, url, fails, k + 1, res.invoked)
         ELSE EnrichFrom_2(r, url, fails, k + 1, before)

Enrich_2(r, url, fails) == EnrichFrom_2(r, url, fails, 1, <<>>)

NoReturn == [by |-> NULL, status |-> NULL, fails |-> {}]

(* A call of NewRegistry, of either definition *)
CallNewRegistry(def, fallback) ==
    /\ regPC = "none"
    /\ LET made == IF def = 1 THEN NewRegistry(fallback) ELSE NewRegistry_2(fallback)
       IN /\ registry' = made.registry
          /\ regPC' = IF made.panic THEN "panicked" ELSE "ready"
    /\ UNCHANGED <<invoked, enrichRet, enrichURL>>
    /\ UNCHANGED pipeVars
    /\ UNCHANGED libVars

(* A call of Registry.Register *)
CallRegister(e) ==
    /\ regPC = "ready"
    /\ Len(registry.enrichers) < MaxRegistered
    /\ registry' = Register(registry, e)
    /\ invoked' = <<>>
    /\ enrichRet' = NoReturn
    /\ enrichURL' = NULL
    /\ UNCHANGED regPC
    /\ UNCHANGED pipeVars
    /\ UNCHANGED libVars

(* A call of Registry.Enrich of the definition that built the registry *)
CallEnrich(u, fails) ==
    /\ regPC = "ready"
    /\ LET res == IF registry.def = 1 THEN Enrich(registry, u, fails)
                  ELSE Enrich_2(registry, u, fails)
       IN /\ invoked' = res.invoked
          /\ enrichRet' = [by |-> res.by, status |-> res.status, fails |-> fails]
          /\ regPC' = IF res.status = "panic" THEN "panicked" ELSE "ready"
    /\ enrichURL' = u
    /\ UNCHANGED registry
    /\ UNCHANGED pipeVars
    /\ UNCHANGED libVars

----------------------------------------------------------------------------
(* The pipeline: the state after worker.New and the steps of the program   *)

Init ==
    /\ entries = [i \in IDs |-> NoEntry]
    /\ rows = {}
    /\ nextID = 1
    /\ cache = [h \in Hashes |-> NoCacheRow]
    /\ summarizer \in {NULL, geminiProvider}
    /\ started = FALSE
    /\ eLoop = [IdleLoop EXCEPT !.pc = "new"]
    /\ sLoop = [IdleLoop EXCEPT !.pc = "new"]
    /\ refreshes = 0
    /\ summarized = {}
    /\ stopCh = "open"
    /\ wg = 0
    /\ stopPC = "none"
    /\ cacheTable = <<>>
    /\ lastPut = [h \in Hashes |-> NoCacheRow]
    /\ puts = 0
    /\ cacheGot = NoGet
    /\ fetchPC = "idle"
    /\ target = NoURL
    /\ via = 0
    /\ lastCheck = NoCheck
    /\ lastDial = <<>>
    /\ registry = NoRegistry
    /\ regPC = "none"
    /\ invoked = <<>>
    /\ enrichRet = NoReturn
    /\ enrichURL = NULL
    /\ rawURL = EmptyText
    /\ normalized = NoReturnYet
    /\ again = NoReturnYet
    /\ variant = EmptyText
    /\ variantNormalized = NoReturnYet
    /\ webDoc = <<>>
    /\ webResult = NoWebResult
    /\ sessions = {}
    /\ now = 0
    /\ due = NoDue
    /\ issued = {}
    /\ deleted = {}
    /\ validRet = NoValid
    /\ stored = NotLoaded
    /\ refreshRet = NoRefresh
    /\ pollFailed = [enrichment |-> FALSE, summarization |-> FALSE]
    /\ batchSize = BatchSize
    /\ response = NoResponse
    /\ bodyRead = NoRead
    /\ entryTable = <<>>
    /\ creates = [r \in Requests |-> NoCreate]
    /\ descr = NoDescription
    /\ truncated = NotTruncated

(* The steps of the worker; Storage is the set of outcomes a storage call
   can have in them (TRUE: it succeeds) *)
WorkerSteps(Storage) ==
    \/ Start
    \/ \E ok \in Storage : EnrichTick(ok)
    \/ \E ok \in Storage : EnrichMark(ok)
    \/ \E ok \in Storage : EnrichFail(ok)
    \/ \E result \in EnrichResults, ok \in Storage : EnrichSave(result, ok)
    \/ \E ok \in Storage : SummTick(ok)
    \/ \E okGet, ok \in Storage : SummCheck(okGet, ok)
    \/ \E ok \in Storage : SummFail(ok)
    \/ \E result \in SummaryResults, ok, okStore \in Storage : SummSave(result, ok, okStore)

(* The steps of the pipeline: the handlers and the worker *)
Steps(Storage) ==
    \/ \E u \in SourceURLs : Create(u)
    \/ \E id \in IDs : RefreshEnrichment(id)
    \/ \E id \in IDs : RefreshSummary(id)
    \/ WorkerSteps(Storage)

(* The pipeline over a database whose calls succeed *)
Next == Steps({TRUE})

Spec == Init /\ [][Next]_vars

(* The results a stage returns when it succeeds, one for each stage: what
   progress depends on is whether the call succeeds, not what it returns *)
LiveEnrichResult == [CanonicalURL |-> "c2", Title |-> "T", Description |-> "D"]

LiveSummaryResult ==
    [Text |-> "s1", Provider |-> geminiProvider,
     Model |-> geminiDefaultModel, Version |-> geminiVersion]

(* The running pipeline over a database whose calls succeed, with the
   handlers that create and refresh records *)
NextLive ==
    \/ \E u \in SourceURLs : Create(u)
    \/ \E id \in IDs : RefreshEnrichment(id)
    \/ \E id \in IDs : RefreshSummary(id)
    \/ Start
    \/ EnrichTick(TRUE)
    \/ EnrichMark(TRUE)
    \/ EnrichFail(TRUE)
    \/ EnrichSave(LiveEnrichResult, TRUE)
    \/ SummTick(TRUE)
    \/ SummCheck(TRUE, TRUE)
    \/ SummFail(TRUE)
    \/ SummSave(LiveSummaryResult, TRUE, TRUE)

(* The next step of the goroutine of each loop *)
EnrichmentLoopStep ==
    \/ EnrichTick(TRUE)
    \/ EnrichMark(TRUE)
    \/ EnrichFail(TRUE)
    \/ EnrichSave(LiveEnrichResult, TRUE)

SummarizationLoopStep ==
    \/ SummTick(TRUE)
    \/ SummCheck(TRUE, TRUE)
    \/ SummFail(TRUE)
    \/ SummSave(LiveSummaryResult, TRUE, TRUE)

(* What the scheduling gives the running pipeline: each goroutine goes on;
   the ticker of a loop waiting in its select fires, and a stage call and
   its storage calls return, so a loop within a batch takes its next step *)
PipelineFairness ==
    /\ WF_vars(EnrichmentLoopStep)
    /\ WF_vars(SummarizationLoopStep)

SpecLive == Init /\ [][NextLive]_vars /\ PipelineFairness

(* The pipeline over a database whose calls can fail *)
NextFaults == Steps(BOOLEAN)

SpecFaults == Init /\ [][NextFaults]_vars

(* The worker from Start to the shutdown of main, with entries being
   created: Worker.Stop and the loops' exits *)
NextStop ==
    \/ \E u \in SourceURLs : Create(u)
    \/ WorkerSteps({TRUE})
    \/ StopClose
    \/ StopReturn
    \/ EnrichExit
    \/ SummExit

SpecStop == Init /\ [][NextStop]_vars

(* What the scheduling gives the shutdown: a stage call and its storage
   calls return, so a loop within a batch takes its next step; a select with
   the stop case ready now and again takes it in the end, the choice among
   the ready cases being uniformly random; a Wait whose counter is zero
   returns *)
StopFairness ==
    /\ WF_vars(EnrichMark(TRUE))
    /\ WF_vars(EnrichFail(TRUE) \/ \E result \in EnrichResults : EnrichSave(result, TRUE))
    /\ WF_vars(SummCheck(TRUE, TRUE))
    /\ WF_vars(SummFail(TRUE)
               \/ \E result \in SummaryResults : SummSave(result, TRUE, TRUE))
    /\ SF_vars(EnrichExit)
    /\ SF_vars(SummExit)
    /\ WF_vars(StopReturn)

SpecStopLive == SpecStop /\ StopFairness

(* The summary cache on its own: Store and GetByURLHash calls *)
NextCache ==
    \/ \E u \in URLs, result \in SummaryResults : CachePut(u, result)
    \/ \E h \in Hashes : CacheGet(h)

SpecCache == Init /\ [][NextCache]_vars

(* One fetch of the Web or Podcast strategy: validation, requests, redirects *)
NextFetch ==
    \/ \E u \in FetchURLs : \E answer \in AnswersFor(u) : FetchStart(u, answer)
    \/ \E ip \in LiteralIPs : FetchConnect(ip)
    \/ FetchFail
    \/ FetchFinal
    \/ \E u \in FetchURLs : \E answer \in AnswersFor(u) : FetchRedirect(u, answer)

SpecFetch == Init /\ [][NextFetch]_vars

(* NormalizeURL on its own: a call, the call on its result, a call on a
   variant of its input *)
NextNormalize ==
    \/ NormalizeCall
    \/ NormalizeAgain
    \/ NormalizeVariant

SpecNormalize == Init /\ [][NextNormalize]_vars

(* The reading-time estimate on its own: one page after another *)
NextReadTime == WebEnrichDoc \/ WebReturn

SpecReadTime == Init /\ [][NextReadTime]_vars

(* The session store on its own: its operations, its cleanup, the clock *)
NextSession ==
    \/ SessionCreate
    \/ \E token \in Tokens : SessionValid(token)
    \/ \E token \in Tokens : SessionDelete(token)
    \/ \E token \in Tokens : SessionRefresh(token)
    \/ SessionCleanup
    \/ ClockTick

SpecSession == Init /\ [][NextSession]_vars

(* The refresh handlers on their own, over one row with all its columns *)
SpecRefresh == Init /\ [][NextRefresh]_vars

(* The worker from Start to the shutdown over a database whose calls can
   fail: the pending-list queries of the ticks, the cache lookups and the
   writes *)
NextPollFaults ==
    \/ \E u \in SourceURLs : Create(u)
    \/ Start
    \/ EnrichTick(TRUE)
    \/ EnrichPollFails
    \/ \E ok \in BOOLEAN : EnrichMark(ok)
    \/ \E ok \in BOOLEAN : EnrichFail(ok)
    \/ \E result \in EnrichResults, ok \in BOOLEAN : EnrichSave(result, ok)
    \/ SummTick(TRUE)
    \/ SummPollFails
    \/ \E okGet, ok \in BOOLEAN : SummCheck(okGet, ok)
    \/ \E ok \in BOOLEAN : SummFail(ok)
    \/ \E result \in SummaryResults, ok, okStore \in BOOLEAN : SummSave(result, ok, okStore)
    \/ StopClose
    \/ StopReturn
    \/ EnrichExit
    \/ SummExit

SpecPollFaults == Init /\ [][NextPollFaults]_vars

(* The worker constructed with a batch size of its own, over a database
   whose calls succeed and without refreshes *)
NextBatch ==
    \/ \E u \in SourceURLs : Create(u)
    \/ \E size \in BatchSizes : New([BatchSize |-> size])
    \/ WorkerSteps({TRUE})

SpecBatch == Init /\ [][NextBatch]_vars

(* The strategies from the response on, each on a response of its own *)
SpecBody == Init /\ [][NextBody]_vars

(* Create requests served side by side *)
SpecCreate == Init /\ [][NextCreate]_vars

(* truncateDescription on its own, one call on one description *)
SpecTruncate == Init /\ [][NextTruncate]_vars

(* The statements of the loops on their own, over one row with all its
   columns *)
SpecLoopWrite == Init /\ [][NextLoopWrite]_vars

(* The registry on its own: construction, registrations and Enrich calls *)
NextRegistry ==
    \/ \E def \in {1, 2}, fallback \in Strategies \cup {NULL} :
          CallNewRegistry(def, fallback)
    \/ \E e \in Strategies : CallRegister(e)
    \/ \E u \in RegistryURLs, fails \in SUBSET Strategies : CallEnrich(u, fails)

SpecRegistry == Init /\ [][NextRegistry]_vars

----------------------------------------------------------------------------
(* Properties of the pipeline                                              *)

(* The enrichment columns of a row *)
EnrichmentFields(e) ==
    <<e.canonical_url, e.title, e.description,
      e.enrichment_status, e.enrichment_error, e.enriched_at>>

(* The summary columns of a row *)
SummaryFields(e) ==
    <<e.summary_text, e.summary_provider, e.summary_model, e.summary_version,
      e.summary_generated_at, e.summary_status, e.summary_error>>

(* The ids of the entries of a loop's batch *)
BatchIDs(loop) == {loop.batch[k].id : k \in 1..Len(loop.batch)}

(* A step of processEnrichment *)
EnrichLoopStep == eLoop.pc # "new" /\ eLoop' # eLoop

(* A step of processSummarization *)
SummLoopStep == sLoop.pc # "new" /\ sLoop' # sLoop

(* A step in which the enrichment loop handles entry i of its batch *)
EnrichActsOn(i) ==
    eLoop.pc \in {"mark", "enrich"} /\ eLoop' # eLoop /\ Cur(eLoop).id = i

(* A step in which the summarization loop handles entry i of its batch: it
   writes the entry's summary status or calls the summarizer for it *)
SummActsOn(i) ==
    sLoop.pc \in {"check", "summarize"} /\ sLoop' # sLoop /\ Cur(sLoop).id = i

(* The step is a call of w.summarizer.Summarize for entry i *)
SummarizerCalledFor(i) ==
    sLoop.pc = "summarize" /\ sLoop' # sLoop /\ Cur(sLoop).id = i

(* C1: the summarization stage acts on a record (writes its summary status
   or calls the Summarizer for it) only while the record's enrichment_status
   is ok, also when refreshes of enrichment interleave with the loop. *)
C1_SummaryOnlyWhileEnriched ==
    [][\A i \in IDs :
          SummActsOn(i) => entries[i].enrichment_status = StatusOK]_vars

(* C2: every status write of the loops is conditional on the status the loop
   expects: the claim to processing changes the record only if it is still
   pending, the result write only if it is still processing; a refresh that
   arrived in between is not overwritten. *)
C2_ConditionalWrites ==
    [][/\ \A i \in IDs :
             (EnrichActsOn(i) /\ entries[i].enrichment_status #
                 (IF eLoop.pc = "mark" THEN StatusPending ELSE StatusProcessing))
                => entries'[i] = entries[i]
       /\ \A i \in IDs :
             (SummActsOn(i) /\ entries[i].summary_status #
                 (IF sLoop.pc = "check" THEN StatusPending ELSE StatusProcessing))
                => entries'[i] = entries[i]]_vars

(* The status pairs pending -> processing -> {ok | failed | skipped} allows *)
StateMachine ==
    {<<StatusPending, StatusProcessing>>, <<StatusProcessing, StatusOK>>,
     <<StatusProcessing, StatusFailed>>, <<StatusProcessing, StatusSkipped>>}

(* The status pairs that leave pending for a terminal status at once *)
DirectFromPending ==
    {<<StatusPending, StatusOK>>, <<StatusPending, StatusFailed>>,
     <<StatusPending, StatusSkipped>>}

(* The change of entry i's enrichment status in a step of the enrichment loop *)
EnrichmentChange(i) ==
    <<entries[i].enrichment_status, entries'[i].enrichment_status>>

(* The change of entry i's summary status in a step of the summarization loop *)
SummaryChange(i) ==
    <<entries[i].summary_status, entries'[i].summary_status>>

(* C3 as stated: every status change made by the loops follows
   pending -> processing -> {ok | failed | skipped}: processing is entered
   only from pending, and ok, failed and skipped only from processing. *)
C3_StateMachine ==
    [][\A i \in IDs :
          /\ (EnrichLoopStep /\ EnrichmentChange(i)[1] # EnrichmentChange(i)[2])
                => EnrichmentChange(i) \in StateMachine
          /\ (SummLoopStep /\ SummaryChange(i)[1] # SummaryChange(i)[2])
                => SummaryChange(i) \in StateMachine]_vars

(* C3, amended: a loop moves a record to processing only from pending, and to
   ok, failed or skipped only from processing or from pending; it never
   changes a status that is ok, failed or skipped. *)
C3_StateMachineAmended ==
    [][\A i \in IDs :
          /\ (EnrichLoopStep /\ EnrichmentChange(i)[1] # EnrichmentChange(i)[2])
                => EnrichmentChange(i) \in StateMachine \cup DirectFromPending
          /\ (SummLoopStep /\ SummaryChange(i)[1] # SummaryChange(i)[2])
                => SummaryChange(i) \in StateMachine \cup DirectFromPending]_vars

(* Both routes to ok have been taken: one record was summarized through
   processing, another got its summary from the cache straight from pending *)
C3_Witness ==
    \E i, j \in rows :
        /\ entries[i].summary_status = StatusOK /\ i \notin summarized
        /\ entries[j].summary_status = StatusOK /\ j \in summarized
        /\ entries[i].enrichment_status = StatusOK

(* C4: no automatic retry: while a record's stage status is failed or ok,
   neither loop selects the record for that stage nor changes the stage's
   columns; only a refresh makes it pending again. *)
C4_NoAutomaticRetry ==
    [][\A i \in IDs :
          /\ (EnrichLoopStep /\ entries[i].enrichment_status \in {StatusOK, StatusFailed})
                => /\ EnrichmentFields(entries'[i]) = EnrichmentFields(entries[i])
                   /\ eLoop.pc = "idle" => i \notin BatchIDs(eLoop')
                   /\ ~EnrichActsOn(i)
          /\ (SummLoopStep /\ entries[i].summary_status \in {StatusOK, StatusFailed})
                => /\ SummaryFields(entries'[i]) = SummaryFields(entries[i])
                   /\ sLoop.pc = "idle" => i \notin BatchIDs(sLoop')
                   /\ ~SummActsOn(i)]_vars

(* A failed record stays out of a batch selected after its failure *)
C4_Witness ==
    \E i \in rows :
        /\ entries[i].enrichment_status = StatusFailed
        /\ eLoop.pc = "mark"
        /\ i \notin BatchIDs(eLoop)

(* The records of a batch the loop has already handled have their own
   terminal status, unless a refresh has made one pending again *)
HandledAreTerminal ==
    /\ \A k \in 1..(eLoop.idx - 1) :
          LET st == entries[eLoop.batch[k].id].enrichment_status
          IN \/ st \in {StatusOK, StatusFailed}
             \/ st = StatusPending /\ refreshes > 0
    /\ \A k \in 1..(sLoop.idx - 1) :
          LET st == entries[sLoop.batch[k].id].summary_status
          IN \/ st \in {StatusOK, StatusFailed, StatusSkipped}
             \/ st = StatusPending /\ refreshes > 0

(* The outcome of a stage call for the record at hand touches that record
   only, a failure is stored with its error message, and the loop goes on to
   the next record of the batch *)
StageCallIsLocal ==
    /\ eLoop.pc = "enrich" /\ eLoop' # eLoop =>
          LET id == Cur(eLoop).id
          IN /\ \A j \in IDs \ {id} : entries'[j] = entries[j]
             /\ entries'[id].enrichment_status \in {StatusOK, StatusFailed}
             /\ entries'[id].enrichment_status = StatusFailed
                   => entries'[id].enrichment_error = ErrMsg
             /\ eLoop.idx < Len(eLoop.batch) =>
                   eLoop' = [eLoop EXCEPT !.pc = "mark", !.idx = eLoop.idx + 1]
    /\ sLoop.pc = "summarize" /\ sLoop' # sLoop =>
          LET id == Cur(sLoop).id
          IN /\ \A j \in IDs \ {id} : entries'[j] = entries[j]
             /\ entries'[id].summary_status \in {StatusOK, StatusFailed}
             /\ entries'[id].summary_status = StatusFailed
                   => entries'[id].summary_error = ErrMsg
             /\ sLoop.idx < Len(sLoop.batch) =>
                   sLoop' = [sLoop EXCEPT !.pc = "check", !.idx = sLoop.idx + 1]

(* C5: batch resilience: a failed stage call marks only its own record failed,
   with the error message, and the loop goes on: every later record of the
   batch is processed and gets its own terminal status. *)
C5_BatchResilience == []HandledAreTerminal /\ [][StageCallIsLocal]_vars

(* The first record of a batch failed and the loop is processing the second *)
C5_Witness ==
    /\ eLoop.pc = "enrich"
    /\ eLoop.idx = 2
    /\ entries[eLoop.batch[1].id].enrichment_status = StatusFailed
    /\ entries[eLoop.batch[1].id].enrichment_error = ErrMsg
    /\ entries[eLoop.batch[2].id].enrichment_status = StatusProcessing

(* C6: cache short-circuit: when the cache holds a row for the hash of the
   canonical-or-source URL of the record the summarization loop has read, the
   loop does not call the Summarizer for it, and the record gets summary_status
   ok with the text, provider, model and version of the cached row. *)
C6_CacheShortCircuit ==
    [][(/\ sLoop.pc = "check"
        /\ sLoop' # sLoop
        /\ ~NoContent(Cur(sLoop).entry)
        /\ cache[CurHash] # NoCacheRow)
          => LET id == Cur(sLoop).id
                 cached == cache[CurHash]
             IN /\ ~(sLoop'.pc = "summarize" /\ sLoop'.idx = sLoop.idx)
                /\ summarized' = summarized
                /\ entries'[id].summary_status = StatusOK
                /\ entries'[id].summary_text = cached.summary_text
                /\ entries'[id].summary_provider = cached.provider
                /\ entries'[id].summary_model = cached.model
                /\ entries'[id].summary_version = cached.version]_vars

(* A record has its summary from the cache: it is ok with the cached row's
   fields, and the summarizer was never called for it *)
C6_Witness ==
    \E i \in rows :
        LET cached == cache[hashURL(CanonicalOrSource(entries[i]))]
        IN /\ i \notin summarized
           /\ entries[i].summary_status = StatusOK
           /\ cached # NoCacheRow
           /\ entries[i].summary_text = cached.summary_text
           /\ entries[i].summary_provider = cached.provider
           /\ entries[i].summary_model = cached.model
           /\ entries[i].summary_version = cached.version

(* The record has neither a title nor a description *)
NoTitleNoDescription(e) ==
    e.title \in {NULL, ""} /\ e.description \in {NULL, ""}

(* C7: for a record whose enrichment is ok with neither a title nor a
   description, the Summarizer is never called and summary_status never
   becomes ok; the loop sets it to skipped. *)
C7_NoContentSkipped ==
    [][\A i \in IDs :
          (/\ SummActsOn(i)
           /\ entries[i].enrichment_status = StatusOK
           /\ NoTitleNoDescription(entries[i])
           /\ NoTitleNoDescription(Cur(sLoop).entry))
             => /\ ~SummarizerCalledFor(i)
                /\ entries'[i].summary_status = StatusSkipped]_vars

(* A step of a handler: a record is created or a refresh is served *)
HandlerStep == rows' # rows \/ refreshes' # refreshes

(* Once Stop has returned both loops have exited *)
LoopsExitedAfterStop ==
    stopPC = "returned" => eLoop.pc = "done" /\ sLoop.pc = "done"

(* Once Stop has returned the pipeline changes nothing: neither a loop's
   position, nor the cache, nor a record other than through a handler *)
QuietAfterStop ==
    stopPC = "returned" =>
        /\ UNCHANGED <<eLoop, sLoop, cache, summarized>>
        /\ entries' # entries => HandlerStep

(* C11: when Worker.Stop returns, both loops have exited: no loop is running
   and the pipeline modifies no record after Stop has returned. *)
C11_StopWaitsForLoops == []LoopsExitedAfterStop /\ [][QuietAfterStop]_vars

(* Stop has returned after the worker processed a record, with a record
   still waiting for the enrichment loop *)
C11_Witness ==
    /\ stopPC = "returned"
    /\ \E i \in rows : entries[i].enrichment_status \in {StatusOK, StatusFailed}
    /\ \E i \in rows : entries[i].enrichment_status = StatusPending

(* C12: when no Summarizer is configured the summarization loop is a no-op:
   it never holds a batch read from the store, the cache stays empty, the
   Summarizer is never called and every record's summary columns stay as
   INSERT (or a refresh) left them. *)
C12_NoSummarizerNoOp ==
    summarizer = NULL =>
        /\ sLoop.pc \in {"new", "idle"}
        /\ sLoop.batch = <<>>
        /\ \A h \in Hashes : cache[h] = NoCacheRow
        /\ summarized = {}
        /\ \A i \in rows : SummaryFields(entries[i]) = SummaryFields(NewEntry(NULL))

(* Without a summarizer, an enriched record with a pending summary is left
   alone by the running loop *)
C12_Witness ==
    /\ summarizer = NULL
    /\ started
    /\ sLoop.pc = "idle"
    /\ \E i \in rows : PendingSummary(entries[i])

(* C13: after any sequence of Store calls the cache has at most one row per
   URL hash, and GetByURLHash for a hash returns the summary text, provider,
   model and version of the most recent Store for it. *)
C13_CacheUpsert ==
    /\ \A h \in Hashes : Cardinality(RowsWithHash(cacheTable, h)) <= 1
    /\ \A h \in Hashes : QueryRow(cacheTable, h) = lastPut[h]
    /\ cacheGot # NoGet => cacheGot.row = lastPut[cacheGot.url_hash]

(* A hash was stored twice with different texts, and read back afterwards *)
C13_Witness ==
    /\ puts >= 2
    /\ Len(cacheTable) = 1
    /\ cacheGot.url_hash = cacheTable[1].url_hash
    /\ cacheGot.row.summary_text = "s2"

(* A loop takes a batch in hand: its tick found pending records *)
EnrichBatchStarts == eLoop.pc = "idle" /\ eLoop'.pc = "mark"

SummBatchStarts == sLoop.pc = "idle" /\ sLoop'.pc = "check"

(* With the stop signal issued a loop that is within a batch goes on with
   it, and a loop that is between ticks starts no batch *)
NoBatchAfterStop ==
    stopCh = "closed" => ~EnrichBatchStarts /\ ~SummBatchStarts

(* C24: once Stop has been called, each loop lets its batch in flight run   *)
(* to completion and then exits without starting another batch.             *)
C24_NoBatchAfterStop == [][NoBatchAfterStop]_vars

(* Both loops have exited and Stop has returned *)
ShutDown == eLoop.pc = "done" /\ sLoop.pc = "done" /\ stopPC = "returned"

(* C25: shutdown is live: after the stop signal is issued each loop         *)
(* eventually exits and Stop eventually returns, provided every stage call  *)
(* and storage call in flight returns.                                      *)
C25_ShutdownLive == stopCh = "closed" ~> ShutDown

(* C25 is exercised: the stop signal is out, one loop has exited and the
   other is within a batch, at a stage call *)
C25_Witness ==
    /\ stopCh = "closed"
    /\ sLoop.pc = "done"
    /\ eLoop.pc = "enrich"
    /\ stopPC = "wait"

(* The summarization loop is at the Summarizer's call for entry i, after a
   cache miss, and the call succeeds: the step saves a summary *)
SummarizedOK(i) ==
    /\ SummarizerCalledFor(i)
    /\ entries'[i].summary_status # StatusFailed

(* After the step the cache holds, under the hash of the canonical URL of
   entry i (of its source URL when it has none), the summary written to
   the entry *)
CachedAsWritten(i) ==
    LET e == entries'[i]
        cached == cache'[hashURL(CanonicalOrSource(e))]
    IN  /\ e.summary_status = StatusOK
        /\ cached.summary_text = e.summary_text
        /\ cached.provider = e.summary_provider
        /\ cached.model = e.summary_model
        /\ cached.version = e.summary_version

(* C26: on a cache miss followed by a successful Summarizer call the       *)
(* record is persisted with summary_status ok, and the cache then holds,   *)
(* under the SHA-256 hash of the record's canonical URL (of its source URL  *)
(* when it has none), an entry whose text, provider, model and version are  *)
(* those written to the record.                                             *)
C26_SummaryCached ==
    [][\A i \in rows : SummarizedOK(i) => CachedAsWritten(i)]_vars

----------------------------------------------------------------------------
(* Properties of the pipeline over a database whose calls can fail         *)

(* A loop is between two ticks: it has no batch in hand *)
BetweenTicks(loop) == loop.pc \in {"new", "idle"}

(* Records a poll of the loop can select no more unless a handler resets
   them: the polls select pending records, and these are in processing *)
StuckInEnrichment ==
    {i \in rows : entries[i].enrichment_status = StatusProcessing}

StuckInSummary ==
    {i \in rows : entries[i].summary_status = StatusProcessing}

(* C23: when a storage write fails while a record is being processed (the   *)
(* mark as processing, the save of the result or the save of the failure),  *)
(* the record is skipped for the cycle and selected again by a later poll   *)
(* of the loop: once the batch is over no record is left in processing,     *)
(* where no poll selects it.                                                *)
C23_FailedWriteRetried ==
    /\ BetweenTicks(eLoop) => StuckInEnrichment = {}
    /\ BetweenTicks(sLoop) => StuckInSummary = {}

----------------------------------------------------------------------------
(* Properties of the safe fetch layer                                      *)

(* The address is loopback, private, link-local, multicast or unspecified *)
Disallowed(ip) ==
    \/ IsLoopback(ip)
    \/ IsPrivate(ip)
    \/ IsLinkLocalUnicast(ip)
    \/ IsLinkLocalMulticast(ip)
    \/ IsMulticast(ip)
    \/ IsUnspecified(ip)

(* The URL breaks a rule that needs no lookup: its scheme is not http or
   https, its host is missing, is localhost or ends in .localhost, it carries
   userinfo, or its host is a disallowed literal IP *)
MustReject(u) ==
    \/ u.Scheme \notin {TextHTTP, TextHTTPS}
    \/ u.HostName = <<>> /\ u.HostIP = <<>>
    \/ ToLower(u.HostName) = TextLocalhost
    \/ HasSuffix(ToLower(u.HostName), <<".">> \o TextLocalhost)
    \/ u.User # NULL
    \/ u.HostIP # <<>> /\ Disallowed(u.HostIP)

(* The validation on record is the one of the URL the strategy was given *)
InitialCheck == lastCheck # NoCheck /\ via = 0

(* C14: validation rejects, before any network call, every URL whose scheme
   is not http or https, whose host is missing, is localhost or ends in
   .localhost, which carries userinfo, or whose host is a literal IP that is
   loopback, private, link-local, multicast or unspecified; a URL with a
   public literal IP passes. *)
C14_ValidationRejects ==
    InitialCheck =>
        /\ MustReject(lastCheck.url) =>
              /\ ~lastCheck.ok
              /\ ~lastCheck.resolved
              /\ fetchPC = "rejected"
              /\ lastDial = <<>>
        /\ (lastCheck.url.HostIP # <<>> /\ ~MustReject(lastCheck.url)) =>
              /\ lastCheck.ok
              /\ ~lastCheck.resolved

(* The link-local metadata address as a literal host has been rejected *)
C14_Witness ==
    /\ InitialCheck
    /\ lastCheck.url = ParsedURL(TextHTTPS, NULL, <<>>, <<169, 254, 169, 254>>)
    /\ fetchPC = "rejected"

(* A step in which a URL is validated: the one the strategy was given, or a
   redirect target *)
ValidationStep ==
    fetchPC \in {"idle", "response"} /\ fetchPC' \in {"connect", "rejected"}

(* C15: for a DNS-name host validation succeeds only if the resolution
   succeeds, returns at least one address, and every returned address is
   allowed: one disallowed address among the answers rejects the request. *)
C15_EveryAddressChecked ==
    [][(ValidationStep /\ lastCheck'.ok /\ lastCheck'.url.HostName # <<>>) =>
          /\ lastCheck'.resolved
          /\ ~lastCheck'.answer.err
          /\ Len(lastCheck'.answer.addrs) >= 1
          /\ \A k \in 1..Len(lastCheck'.answer.addrs) :
                ~Disallowed(lastCheck'.answer.addrs[k])]_vars

(* An answer whose first address is allowed and whose second is not has
   rejected the request *)
C15_Witness ==
    /\ lastCheck.resolved
    /\ ~lastCheck.ok
    /\ fetchPC = "rejected"
    /\ Len(lastCheck.answer.addrs) = 2
    /\ ~Disallowed(lastCheck.answer.addrs[1])
    /\ Disallowed(lastCheck.answer.addrs[2])

(* C16: no fetch of the Web or Podcast strategy connects to a loopback,
   private, link-local, multicast or unspecified address, also when the DNS
   answer at connection time differs from the one validation saw. *)
C16_NoDisallowedConnection ==
    lastDial # <<>> => ~Disallowed(lastDial)

(* The validation on record accepts its URL by the rules of C14 and C15 *)
Acceptable(check) ==
    /\ check.ok
    /\ ~MustReject(check.url)
    /\ check.url.HostName # <<>> =>
          /\ check.resolved
          /\ ~check.answer.err
          /\ Len(check.answer.addrs) >= 1
          /\ \A k \in 1..Len(check.answer.addrs) : ~Disallowed(check.answer.addrs[k])

(* A request goes out only to the URL validated last, and only if it passed *)
RequestsAreValidated ==
    via' # via => lastCheck.url = target /\ Acceptable(lastCheck)

(* A redirect whose target fails validation ends the fetch with an error,
   and nothing is requested afterwards *)
BadRedirectAborts ==
    /\ (fetchPC = "response" /\ lastCheck' # lastCheck /\ ~Acceptable(lastCheck'))
          => fetchPC' = "rejected" /\ target' = target /\ via' = via
    /\ fetchPC = "rejected" => UNCHANGED fetchVars

(* C17: every redirect target is validated with the rules of the original
   URL before it is requested: a chain that reaches a target failing
   validation is aborted with an error and that target is never requested. *)
C17_RedirectsValidated == [][RequestsAreValidated /\ BadRedirectAborts]_vars

(* A fetch was aborted at a redirect to a URL that must be rejected *)
C17_Witness ==
    /\ fetchPC = "rejected"
    /\ via >= 1
    /\ lastCheck.url # target
    /\ MustReject(lastCheck.url)

----------------------------------------------------------------------------
(* Properties of NormalizeURL                                              *)

(* NormalizeURL accepted rawURL and has been called on what it returned *)
NormalizedTwice == normalized.err = NULL /\ again # NoReturnYet

(* C18: normalization is idempotent: for every URL NormalizeURL accepts,   *)
(* NormalizeURL of the string it returned succeeds and returns that same   *)
(* string.                                                                 *)
C18_Idempotent ==
    NormalizedTwice => again.err = NULL /\ again.text = normalized.text

(* The keys among the pairs of a query *)
KeysOf(pairs) == {pairs[i][1] : i \in 1..Len(pairs)}

(* The keys of the deny-list in any case *)
DenyListed(key) == ToLower(key) \in trackingParams

(* The returned string holds no deny-listed parameter, and every other
   parameter of the text with its values in their order *)
TrackingRemoved(text, returned) ==
    /\ \A key \in KeysOf(returned.query) : ~DenyListed(key)
    /\ \A key \in KeysOf(text.query) \cup KeysOf(returned.query) :
           ~DenyListed(key)
               => ValuesOf(returned.query, key) = ValuesOf(text.query, key)

(* NormalizeURL has been called on rawURL and on a variant of it, and has
   accepted one of the two *)
VariantNormalized ==
    /\ variantNormalized # NoReturnYet
    /\ normalized.err = NULL \/ variantNormalized.err = NULL

(* C19: NormalizeURL removes every query parameter whose key, compared     *)
(* without regard to case, is in the tracking deny-list, and keeps every    *)
(* other parameter with its values; two URLs that differ only in tracking   *)
(* parameters, the fragment, the case of the host or of the scheme, or a    *)
(* trailing slash normalize to the same string.                             *)
C19_TrackingRemoved ==
    /\ normalized.err = NULL => TrackingRemoved(rawURL, normalized.text)
    /\ variantNormalized.err = NULL
           => TrackingRemoved(variant, variantNormalized.text)
    /\ VariantNormalized => variantNormalized = normalized

(* C19 is exercised: a URL with a deny-listed key written in capitals and
   a parameter to keep, and a variant of it, have been normalized *)
C19_Witness ==
    /\ VariantNormalized
    /\ \E key \in KeysOf(rawURL.query) :
           DenyListed(key) /\ key \notin trackingParams
    /\ normalized.text.query # <<>>
    /\ variant.query # rawURL.query

----------------------------------------------------------------------------
(* Properties of the reading-time estimate                                 *)

(* The least whole number of d's that holds n *)
Ceil(n, d) == CHOOSE m \in 0..n : m * d >= n /\ (m - 1) * d < n

(* The words of the page Enrich has estimated the reading time of *)
WordCount == webDoc[findPrimaryContentNode(webDoc)]

(* Enrich has run on a page of a source type that is read *)
Estimated ==
    webResult # NoWebResult /\ shouldEstimateReadTime(webResult.SourceType)

(* C20: the reading-time estimate is ceil(words / 200) * 60 seconds for    *)
(* every positive word count, 60 for 200 words and 120 for 201, and there  *)
(* is no estimate when the word count is 0.                                *)
C20_ReadingTime ==
    Estimated =>
        /\ WordCount > 0
               => webResult.RuntimeSeconds = <<Ceil(WordCount, 200) * 60>>
        /\ WordCount = 200 => webResult.RuntimeSeconds = <<60>>
        /\ WordCount = 201 => webResult.RuntimeSeconds = <<120>>
        /\ WordCount = 0
               => webResult.RuntimeSeconds = <<>> /\ webResult.Metadata = {}

(* C20 is exercised: a page of 201 words has been given two minutes *)
C20_Witness ==
    Estimated /\ WordCount = 201 /\ webResult.RuntimeSeconds = <<120>>

----------------------------------------------------------------------------
(* Properties of the session store                                         *)

(* Valid has been asked about a token that Create handed out and that has
   not been deleted since *)
AskedOfIssued == validRet # NoValid /\ validRet.issued

(* C21: a token returned by Create is valid from its creation until the    *)
(* ttl has elapsed since the creation or since the last Refresh made while  *)
(* it was still valid, and once the time is past its expiry Valid returns   *)
(* false.                                                                   *)
C21_ValidUntilExpiry ==
    AskedOfIssued =>
        /\ validRet.at < validRet.due => validRet.ret
        /\ validRet.at > validRet.due => ~validRet.ret

(* C21 is exercised: a token refreshed while valid was found valid after
   the expiry of its creation, and a token was found expired *)
C21_Witness ==
    /\ AskedOfIssued
    /\ validRet.ret
    /\ validRet.at > validRet.since + TTL
    /\ validRet.due > validRet.at
    /\ \E token \in issued : due[token].until < now

(* C22: after Delete(token), Valid(token) is false in every later state: no *)
(* Refresh, Valid or cleanup brings the token's row back.                   *)
C22_DeletedStaysInvalid ==
    /\ \A token \in deleted : SessionRows(sessions, token) = {}
    /\ validRet.deleted => ~validRet.ret

(* C22 is exercised: Valid was asked about a deleted token while another
   token was still stored *)
C22_Witness ==
    /\ validRet.deleted
    /\ validRet.token \in deleted
    /\ sessions # {}
    /\ validRet.at < validRet.due

----------------------------------------------------------------------------
(* Properties of the worker over failing pending-list queries              *)

(* The tick is over with the failed query: the loop is back at its select,
   where the next tick polls again, and no record, no cache row and no call
   of the Summarizer has come of it; the registry and the cache are called
   from within a batch only *)
EndsTheTick(loop) ==
    /\ loop' = IdleLoop
    /\ UNCHANGED <<entries, rows, cache, summarized, invoked>>

(* A loop returns on the stop signal only *)
ReturnsOnStopOnly(loop) ==
    (loop.pc # "done" /\ loop'.pc = "done") => stopCh = "closed"

FailedPollStep ==
    /\ EnrichPollFails => EndsTheTick(eLoop)
    /\ SummPollFails => EndsTheTick(sLoop)
    /\ ReturnsOnStopOnly(eLoop)
    /\ ReturnsOnStopOnly(sLoop)

(* C28: when the pending-list query of a tick fails, the tick changes no
   record and calls neither the registry, the cache nor the Summarizer, and
   the loop is back at its select to poll again on the next tick; whatever
   call fails, a loop returns only after the stop signal. *)
C28_FailedPollEndsTick == [][FailedPollStep]_vars

(* Both loops have had a query fail while a record was pending for them,
   and the record has been through both stages since: the later ticks polled
   again *)
C28_Witness ==
    /\ pollFailed.enrichment
    /\ pollFailed.summarization
    /\ rows # {}
    /\ \A i \in rows : entries[i].summary_status = StatusOK
    /\ eLoop.pc = "idle"
    /\ sLoop.pc = "idle"

----------------------------------------------------------------------------
(* Properties of the batches                                                *)

(* The tick has taken the oldest records pending for the stage, batchSize of
   them at most and all of them when they are fewer *)
TakesOldest(loop, Pending(_)) ==
    LET pending == {i \in rows : Pending(entries[i])}
        taken == BatchIDs(loop')
    IN  (loop.pc = "idle" /\ loop'.pc \notin {"idle", "done"}) =>
          /\ taken \subseteq pending
          /\ \A i \in pending \ taken : \A b \in taken : b < i
          /\ Len(loop'.batch) <= batchSize
          /\ pending # taken => Len(loop'.batch) = batchSize

(* The batch is in creation order, and the loop is at one record of it: the
   records before have been handled, the records after have not been begun *)
OneAtATime(loop, status, begun) ==
    loop.pc \notin {"new", "idle", "done"} =>
        \A k \in 1..Len(loop.batch) :
            LET now_ == entries[loop.batch[k].id][status]
            IN  /\ k < Len(loop.batch) => loop.batch[k].id < loop.batch[k + 1].id
                /\ k < loop.idx => now_ \in {StatusOK, StatusFailed, StatusSkipped}
                /\ k > loop.idx => now_ = StatusPending
                /\ k = loop.idx =>
                      now_ = IF loop.pc \in begun THEN StatusProcessing
                             ELSE StatusPending

InBatchOrder ==
    /\ OneAtATime(eLoop, "enrichment_status", {"enrich"})
    /\ OneAtATime(sLoop, "summary_status", {"summarize"})

BatchStep ==
    /\ TakesOldest(eLoop, PendingEnrichment)
    /\ TakesOldest(sLoop, PendingSummary)
    /\ InBatchOrder'

(* C29: a tick takes at most batchSize records, the oldest created of those
   pending for its stage, and goes through them in creation order one at a
   time: while the loop is at a record, every record before it in the batch
   has its final status and no record after it has been begun.  Over a
   database whose calls succeed and without refreshes during the batch. *)
C29_BatchInOrder == [][BatchStep]_vars

(* A worker with batchSize 2 is at the second record of a batch of two, its
   stage call begun, the first record done *)
C29_Witness ==
    /\ batchSize = 2
    /\ Len(eLoop.batch) = 2
    /\ eLoop.idx = 2
    /\ eLoop.pc = "enrich"
    /\ entries[eLoop.batch[1].id].enrichment_status = StatusOK
    /\ entries[eLoop.batch[2].id].enrichment_status = StatusProcessing

(* The k-th redirect of a chain is the response to the k-th request: via
   requests have been sent when it arrives.  It is followed exactly if it is
   within the cap and its target passes the validation *)
FollowedWithinCap(u, answer) ==
    FetchRedirect(u, answer) =>
        (fetchPC' = "connect" <=>
            (via <= maxRedirects /\ validateParsedURL(u, answer).ok))

(* C30: a fetch follows redirects up to the cap of 10: the tenth redirect of
   a chain is followed like the ones before it, if its target is acceptable,
   and the eleventh is refused with an error.  Violated: CheckRedirect
   refuses once len(via) >= 10, and via holds the first request too, so the
   tenth redirect is refused. *)
C30_RedirectCap ==
    [][(fetchPC = "response" /\ fetchPC' # "done") =>
          \A u \in {lastCheck'.url} : \A answer \in AnswersFor(u) :
              FollowedWithinCap(u, answer)]_vars

----------------------------------------------------------------------------
(* Properties of the refresh handlers                                       *)

(* The columns of each stage that a refresh of the stage resets *)
EnrichmentLifecycle == {"enrichment_status", "enrichment_error", "enriched_at"}

SummaryLifecycle == {"summary_status", "summary_error", "summary_generated_at"}

Refreshed(name) == refreshRet.handler = name /\ refreshRet.http = 200

(* The row after the refresh has the stage pending, its error and its
   timestamp cleared *)
StageReset(status, error, timestamp) ==
    /\ refreshRet.after[status] = StatusPending
    /\ refreshRet.after[error] = NULL
    /\ refreshRet.after[timestamp] = NULL

(* The refresh left the columns outside except as they were *)
SameOutside(except) ==
    \A f \in (DOMAIN refreshRet.before) \ except :
        refreshRet.after[f] = refreshRet.before[f]

RefreshFrame(bookkeeping) ==
    /\ Refreshed("RefreshEnrichment") =>
          /\ StageReset("enrichment_status", "enrichment_error", "enriched_at")
          /\ SameOutside(EnrichmentLifecycle \cup bookkeeping)
    /\ Refreshed("RefreshSummary") =>
          /\ StageReset("summary_status", "summary_error",
                        "summary_generated_at")
          /\ SameOutside(SummaryLifecycle \cup bookkeeping)

(* C27, as the specification states it: a refresh of one stage sets that
   stage's status to pending, clears that stage's error and timestamp, and
   leaves every other column of the record as it was.  Violated: both
   statements also set updated_at = NOW(). *)
C27_RefreshFrame == RefreshFrame({})

(* C27, amended: a refresh of one stage sets that stage's status to pending,
   clears that stage's error and timestamp and sets updated_at to the time of
   the refresh; every other column, the other stage's status, error,
   timestamp and result and the refreshed stage's own result included, is
   left as it was. *)
C27_RefreshFrameButUpdatedAt == RefreshFrame({"updated_at"})

(* An enrichment refresh of a row whose enrichment had failed and whose
   summary was done, served at a later instant than the row's last write *)
C27_Witness ==
    /\ Refreshed("RefreshEnrichment")
    /\ refreshRet.before.enrichment_status = StatusFailed
    /\ refreshRet.before.enrichment_error = ErrMsg
    /\ refreshRet.before.summary_status = StatusOK
    /\ refreshRet.before.summary_text = "s1"
    /\ refreshRet.after.enrichment_status = StatusPending
    /\ refreshRet.after.updated_at > refreshRet.before.updated_at

----------------------------------------------------------------------------
(* Properties of the strategies' reading of a body                         *)

(* C31: whichever strategy has read a response, what it has handed to its
   parser is at most the byte limit.  Violated: the YouTube strategy decodes
   resp.Body without a limit. *)
C31_BodyCapped == bodyRead.parsed <= bodyLimit

(* The path with its last slash taken off, the root path left as it is and
   the empty path made the root path *)
OneSlashLess(path) ==
    IF path = <<>> \/ path = <<"/">> THEN <<"/">>
    ELSE IF path[Len(path)] = "/" THEN SubSeq(path, 1, Len(path) - 1)
    ELSE path

(* C32: NormalizeURL takes exactly one trailing slash off a path that is not
   the root path and leaves the root path as "/": the empty path becomes
   "/", "/a/" becomes "/a", and a path that ends in several slashes loses
   only the last of them.  Violated: strings.TrimRight takes all the
   trailing slashes off. *)
C32_OneTrailingSlash ==
    normalized.err = NULL =>
        normalized.text.path = OneSlashLess(rawURL.path)

----------------------------------------------------------------------------
(* Properties of EntryHandler.Create                                       *)

(* The request's url field is one NormalizeURL returns an error for *)
NotNormalizable(r) ==
    /\ creates[r].pc # "none"
    /\ NormalizeURL(creates[r].form).err # NULL

(* NormalizeURL returns an error where the claim says it does *)
ErrorsAsStated ==
    \A r \in Requests :
        (/\ creates[r].pc # "none"
         /\ \/ creates[r].url = EmptyText
            \/ creates[r].form.scheme = <<>>
            \/ creates[r].form.authority = <<>>)
        => NormalizeURL(creates[r].form).err # NULL

(* The request goes on with the trimmed text as its dedup key: it is not
   turned down for its url, and a row inserted for it has the trimmed text
   in both columns *)
FallsBackToRaw(r) ==
    /\ creates[r].answer # "URL is required"
    /\ creates[r].normalizedURL = creates[r].url
    /\ creates[r].url.lead = <<>>
    /\ creates[r].answer = "Entry saved" =>
           \E k \in 1..Len(entryTable) :
               /\ entryTable[k].source_url = creates[r].url
               /\ entryTable[k].normalized_url = creates[r].url

(* The request is turned down and nothing is inserted for it *)
TurnedDown(r) ==
    /\ creates[r].pc = "done"
    /\ creates[r].answer = "URL is required"

(* C33, as the specification states it: NormalizeURL returns an error for
   empty or white-space-only input and for input without a scheme or
   without a host, and entry creation then goes on with the raw trimmed URL
   as the record's normalized URL instead of rejecting the entry.
   Violated: an empty or white-space-only url field is rejected. *)
C33_RawURLFallback ==
    /\ ErrorsAsStated
    /\ \A r \in Requests : NotNormalizable(r) => FallsBackToRaw(r)

(* C33, amended: NormalizeURL returns an error for empty or white-space-only
   input and for input without a scheme or without a host.  Entry creation
   rejects a url field that is empty after trimming ("URL is required");
   for every other input NormalizeURL returns an error for, it goes on with
   the raw trimmed URL as the record's normalized URL. *)
C33_RawURLFallbackUnlessEmpty ==
    /\ ErrorsAsStated
    /\ \A r \in Requests :
          NotNormalizable(r) =>
              IF creates[r].url = EmptyText THEN TurnedDown(r)
              ELSE FallsBackToRaw(r)

(* A row has been inserted for a url field with white space before a text
   without a scheme, and an empty url field has been turned down *)
C33_Witness ==
    /\ \E r \in Requests :
          /\ NotNormalizable(r)
          /\ creates[r].form.lead # <<>>
          /\ creates[r].answer = "Entry saved"
    /\ \E r \in Requests : TurnedDown(r)
    /\ Len(entryTable) = 1

(* C39: as long as no Create request sets allow_duplicate, no two records
   have the same normalized URL, however the requests are interleaved.
   Violated: the lookup of a duplicate and the INSERT are two statements and
   normalized_url has no unique index, so two requests for the same URL can
   both find no duplicate and both insert. *)
C39_OnePerNormalizedURL ==
    (\A r \in Requests : ~creates[r].allowDuplicate) =>
        \A j, k \in 1..Len(entryTable) :
            entryTable[j].normalized_url = entryTable[k].normalized_url
                => j = k

----------------------------------------------------------------------------
(* Properties of truncateDescription                                       *)

(* The indices, counted from 0, of the sentence ends of the description
   that lie past character 200 and wholly within the first 500 characters *)
SentenceEndsInReach ==
    {i \in (sentenceFloor + 1)..(descriptionLimit - Len(SentenceEnd)) :
        /\ i + Len(SentenceEnd) <= Len(descr)
        /\ SubSeq(descr, i + 1, i + Len(SentenceEnd)) = SentenceEnd}

(* The result is the description up to the full stop of its last sentence
   end in reach *)
EndsAtLastSentence ==
    (Len(descr) > descriptionLimit /\ SentenceEndsInReach # {}) =>
        LET last == CHOOSE i \in SentenceEndsInReach :
                        \A j \in SentenceEndsInReach : j <= i
        IN  truncated.text = SubSeq(descr, 1, last + 1)

(* C34: whatever the description, the truncated description is at most 500
   characters long; when the description is longer than 500 characters and
   has a sentence end ". " past character 200 within the first 500, the
   result ends at the last such sentence end.  Violated: without such a
   sentence end the result is the first 500 characters and "...", 503
   characters. *)
C34_AtMost500 ==
    truncated.called =>
        /\ Len(truncated.text) <= descriptionLimit
        /\ EndsAtLastSentence

----------------------------------------------------------------------------
(* Properties of the loops' statements over a row with all its columns    *)

(* What the user and the capture handler own *)
UserColumns ==
    {"id", "created_at", "source_url", "normalized_url", "tags", "notes",
     "time_spent_seconds", "quantity"}

(* What the loops are there to write: the enrichment result and lifecycle,
   the summary and its lifecycle *)
PipelineColumns ==
    {"canonical_url", "domain", "source_type", "title", "description",
     "published_at", "runtime_seconds", "metadata_json",
     "summary_text", "summary_provider", "summary_model", "summary_version"}
    \cup EnrichmentLifecycle \cup SummaryLifecycle

(* The columns the statement has changed *)
Written ==
    {f \in DOMAIN refreshRet.before :
        refreshRet.after[f] # refreshRet.before[f]}

LoopWrote == refreshRet.handler \in LoopStatements

(* The row is still there, with the user's columns as they were, and what
   has changed is among the columns allowed *)
WritesWithin(allowed) ==
    LoopWrote =>
        /\ DOMAIN refreshRet.after = DOMAIN refreshRet.before
        /\ Written \cap UserColumns = {}
        /\ Written \subseteq allowed

(* C35, as the specification states it: no statement of either loop deletes
   the record or changes its source URL, normalized URL, tags, notes,
   time-spent or quantity; the loops write enrichment and summary fields
   and their statuses only.  Violated: every statement also sets
   updated_at = NOW(). *)
C35_LoopsWriteOwnColumns == WritesWithin(PipelineColumns)

(* C35, amended: no statement of either loop deletes the record or changes
   its source URL, normalized URL, tags, notes, time-spent or quantity; the
   loops write enrichment and summary fields, their statuses, errors and
   timestamps, and the record's update timestamp, and nothing else. *)
C35_LoopsWriteOwnColumnsAndUpdatedAt ==
    WritesWithin(PipelineColumns \cup {"updated_at"})

(* An enrichment result has been written over a row that had none, at a
   later instant than the row's last write *)
C35_Witness ==
    /\ refreshRet.handler = "UpdateEnrichmentResult"
    /\ refreshRet.before.canonical_url = NULL
    /\ refreshRet.after.canonical_url = "c2"
    /\ refreshRet.after.domain = "example.com"
    /\ refreshRet.after.enrichment_status = StatusOK
    /\ refreshRet.after.updated_at > refreshRet.before.updated_at
    /\ refreshRet.after.source_url = "u1"

----------------------------------------------------------------------------
(* Properties of the stage errors                                          *)

(* The stage's error message is there exactly when the stage has failed *)
ErrorIffFailed(e) ==
    /\ e.enrichment_error # NULL <=> e.enrichment_status = StatusFailed
    /\ e.summary_error # NULL <=> e.summary_status = StatusFailed

(* C36: in every reachable state and for both stages, a record's stage
   error message is present if and only if that stage's status is failed;
   results, processing marks and refreshes clear it and only a failed
   transition sets it. *)
C36_ErrorIffFailed == \A id \in rows : ErrorIffFailed(entries[id])

(* A record whose enrichment succeeded and whose summary has failed with its
   message stored, beside a record whose enrichment has failed with its
   message stored *)
C36_Witness ==
    /\ \E id \in rows :
          /\ entries[id].enrichment_status = StatusOK
          /\ entries[id].summary_status = StatusFailed
          /\ entries[id].summary_error = ErrMsg
    /\ \E id \in rows :
          /\ entries[id].enrichment_status = StatusFailed
          /\ entries[id].enrichment_error = ErrMsg

----------------------------------------------------------------------------
(* Progress of the pipeline                                                *)

EnrichmentSettled(id) ==
    entries[id].enrichment_status \in {StatusOK, StatusFailed}

SummarySettled(id) ==
    entries[id].summary_status \in {StatusOK, StatusFailed, StatusSkipped}

AwaitsEnrichment(id) ==
    started /\ id \in rows /\ PendingEnrichment(entries[id])

AwaitsSummary(id) ==
    started /\ HasSummarizer(summarizer) /\ id \in rows /\ PendingSummary(entries[id])

(* C37, as the specification states it: while the worker runs and storage
   calls succeed, every record pending enrichment eventually reaches ok or
   failed, and with a summarizer every record with enrichment ok and summary
   pending eventually reaches summary ok, failed or skipped.  Violated: an
   enrichment refresh that arrives before the summarization tick takes the
   record out of the summary query, and when the new enrichment fails the
   summary stays pending. *)
C37_Progress ==
    \A id \in IDs :
        /\ AwaitsEnrichment(id) ~> EnrichmentSettled(id)
        /\ AwaitsSummary(id) ~> SummarySettled(id)

(* The record is with the enrichment stage: pending, or marked processing
   by the loop *)
EnrichmentUnsettled(id) ==
    /\ started
    /\ id \in rows
    /\ ~EnrichmentSettled(id)

(* The record is with the summary stage: its enrichment is ok and its
   summary is pending, or marked processing by the loop *)
SummaryUnsettled(id) ==
    /\ started
    /\ HasSummarizer(summarizer)
    /\ id \in rows
    /\ entries[id].enrichment_status = StatusOK
    /\ ~SummarySettled(id)

(* C37, amended: every record pending enrichment eventually reaches ok or
   failed, and with a summarizer every record with enrichment ok and summary
   pending eventually reaches summary ok, failed or skipped unless its
   enrichment is reset by a refresh before then; no other record holds a
   pending record back.  Stated as: no record stays with a stage from some
   moment on for ever.  The worker once started stays started here and a
   row is never deleted, so from any state where a record awaits a stage a
   later state follows where the stage has settled it (or, for the
   summary, where its enrichment is no longer ok). *)
C37_ProgressUnlessRefreshed ==
    \A id \in IDs :
        /\ []<>~EnrichmentUnsettled(id)
        /\ []<>~SummaryUnsettled(id)

(* Two records, both enriched, the older summarized by a call of the
   summarizer and the younger taken up after it in the same batch *)
C37_Witness ==
    /\ started
    /\ HasSummarizer(summarizer)
    /\ rows = {1, 2}
    /\ entries[1].enrichment_status = StatusOK
    /\ entries[1].summary_status = StatusOK
    /\ 1 \in summarized
    /\ entries[2].enrichment_status = StatusOK
    /\ sLoop.pc = "check"
    /\ Cur(sLoop).id = 2
    /\ Len(sLoop.batch) = 2

----------------------------------------------------------------------------
(* Properties of a summary refresh over the cache                          *)

(* The record has had a summary and a refresh has set it back to pending:
   ResetSummary leaves summary_text, and nothing else makes a record with a
   summary pending *)
SummaryRefreshed(e) ==
    e.summary_status = StatusPending /\ e.summary_text # NULL

(* The cache holds a row under the hash of the record's canonical URL, or of
   its source URL when it has none *)
InCache(e) == cache[hashURL(CanonicalOrSource(e))] # NoCacheRow

(* The summarization loop takes up, in this step, a record that a summary
   refresh has set back and whose URL is in the cache *)
TakesUpRefreshed(id) ==
    /\ sLoop.pc = "check"
    /\ sLoop' # sLoop
    /\ Cur(sLoop).id = id
    /\ SummaryRefreshed(entries[id])
    /\ InCache(entries[id])

(* The step writes to the record the row the cache holds for it, under the
   hash of the URL the tick has read, and does not go on to the call of the
   summarizer *)
SetBackFromCache(id) ==
    LET cached == cache[CurHash]
    IN  /\ cached # NoCacheRow
        /\ ~(sLoop'.pc = "summarize" /\ sLoop'.idx = sLoop.idx)
        /\ summarized' = summarized
        /\ cache' = cache
        /\ entries'[id].summary_status = StatusOK
        /\ entries'[id].summary_text = cached.summary_text
        /\ entries'[id].summary_provider = cached.provider
        /\ entries'[id].summary_model = cached.model
        /\ entries'[id].summary_version = cached.version

(* C38: a summary refresh of a record whose canonical-or-source URL hash is
   in the cache causes no call of the Summarizer: the summarization tick
   that takes the record up sets it back to ok with the text, provider,
   model and version of the cached row. *)
C38_RefreshServedFromCache ==
    [][sLoop.pc = "check"
          => \A id \in {Cur(sLoop).id} :
                TakesUpRefreshed(id) => SetBackFromCache(id)]_vars

(* A record summarized by a call of the summarizer and set back to pending
   by a refresh, its URL in the cache, is the one the summarization loop
   has read and is about to take up *)
C38_Witness ==
    /\ 1 \in summarized
    /\ refreshes = 1
    /\ sLoop.pc = "check"
    /\ Cur(sLoop).id = 1
    /\ SummaryRefreshed(entries[1])
    /\ InCache(entries[1])
    /\ ReadColumns(entries[1]) = Cur(sLoop).entry

----------------------------------------------------------------------------
(* Properties of the registry                                              *)

(* An Enrich call has returned (or panicked) on the registry as it is now *)
EnrichReturned == enrichURL # NULL

(* Indexes of the registered strategies that claim the URL of the last call *)
Claimants == {k \in 1..Len(registry.enrichers) : CanHandle(registry.enrichers[k], enrichURL)}

(* The claimant tried first: the one at the smallest index *)
FirstClaimant == registry.enrichers[CHOOSE k \in Claimants : \A j \in Claimants : k <= j]

(* C8: when a registered strategy claims the URL and its enrich fails,
   Registry.Enrich returns that strategy's error and invokes neither a
   lower-priority strategy nor the fallback. *)
C8_RegistryAuthority ==
    (/\ EnrichReturned
     /\ registry.fallback # NULL
     /\ Claimants # {}
     /\ FirstClaimant \in enrichRet.fails)
        => /\ enrichRet.status = "error"
           /\ enrichRet.by = FirstClaimant
           /\ invoked = <<FirstClaimant>>

(* C9: Registry.Enrich invokes exactly one strategy's enrich: the registered
   claimant with the smallest priority value, and the fallback if and only if
   no registered strategy claims the URL; the strategy list stays sorted
   ascending by priority. *)
C9_ExactlyOneStrategy ==
    /\ \A i, j \in 1..Len(registry.enrichers) :
          i < j => Priority(registry.enrichers[i]) <= Priority(registry.enrichers[j])
    /\ EnrichReturned =>
          /\ Len(invoked) = 1
          /\ Claimants # {} =>
                /\ invoked[1] = FirstClaimant
                /\ \A k \in Claimants :
                      Priority(FirstClaimant) <= Priority(registry.enrichers[k])
          /\ Claimants = {} => invoked[1] = registry.fallback

(* C10: constructing a registry without a fallback panics at construction:
   no registry without a fallback exists, and Enrich never dereferences a
   missing fallback. *)
C10_FallbackRequired ==
    /\ regPC = "ready" => registry.fallback # NULL
    /\ enrichRet.status # "panic"

====
